---- MODULE Spec2Model ----
(***************************************************************************)
(* Model of discord/voice_state.py: VoiceConnectionState, the voice        *)
(* connection flow.  The program is an asyncio program: tasks interleave   *)
(* only at `await`.  Every action below is the code a task runs from one   *)
(* await to the next; pc[p] names the await a task is suspended at.        *)
(*                                                                         *)
(* Tasks:  "user"    the caller of connect() / disconnect()                *)
(*         "poller"  the task _poll_voice_ws (created by connect())        *)
(*         "vsu"     a running voice_state_update handler                  *)
(*         "vsrv"    a running voice_server_update handler                 *)
(***************************************************************************)
EXTENDS Integers, Sequences, FiniteSets, TLC

\* ------------------------------------------------------------ bounds
\* VoiceSpec bounds a whole run:
MaxEvents == 3      \* gateway events delivered
MaxFaults == 2      \* faults: the server closing the signalling socket, a
                    \* timeout, a failed open, close() raising
MaxCalls  == 2      \* connect() and disconnect() calls of the user task
\* RetrySpec bounds each phase (from a join request, and from a completed
\* handshake, to the next of them), so that runs of any length are covered:
AttemptEvents == 2
AttemptFaults == 1
RetryCalls    == 1
\* ReuseSpec bounds a whole run, long enough to connect twice:
ReuseEvents == 5
ReuseFaults == 1
ReuseCalls  == 2

\* bounds of the gateway client's runs
MaxFrames == 3      \* frames received (ClientSpec)
ThreadFrames == 2   \* frames received (ThreadsSpec)
MaxBeats  == 2      \* heartbeats sent
MaxReconnects == 1  \* times the gateway socket closes and Client.run reconnects
MaxUserCalls == 1   \* calls of user code that write to the cache
GuildSlashNames == 2  \* names of slash commands used in a guild
OtherMenuNames == 1   \* names of context menus used for the other (guild, type)
MaxLength == 2      \* the max_length option: capacity of the message buffer

\* ------------------------------------------------------- program constants
Attempts == 5       \* connect(): for i in range(5)
MaxSlash == 100     \* add_command: maximum number of slash commands
MaxMenus == 5       \* add_command: maximum number of context menu commands

MISSING == "MISSING"
None    == "None"
NoWs    == 0        \* self.ws is MISSING
NoSock  == 0        \* self.socket is MISSING

Procs == {"user", "poller", "vsu", "vsrv", "waiter"}

\* ConnectionFlowState
FlowStates ==
    { "disconnected", "set_guild_voice_state", "got_voice_state_update",
      "got_voice_server_update", "got_both_voice_updates", "websocket_connected",
      "got_websocket_ready", "got_ip_discovery", "connected" }

\* close codes the voice server may close the signalling socket with
\* (4006 stands for every code the poller treats as recoverable)
RemoteCodes == {1000, 4006, 4014, 4015}

\* ------------------------------------------------------------ payloads
Channels == {"c1", "c2"}
Sessions == {"s1"}
Tokens   == {"t1"}
GuildId  == <<4, 2>>                       \* data['guild_id'], a string of digits
\* data['endpoint'], strings as sequences of characters
Endpoints ==
    { <<"a", ":", "1">>,
      <<"w", "s", "s", ":", "/", "/", "b", ":", "1">> }
RetryEndpoint == <<"w", "s", "s", ":", "/", "/", "b", ":", "1">>
MissingEndpoint == <<MISSING>>

VARIABLES
    state,          \* self._state
    token, session_id, endpoint, server_id,
    ip, port,       \* set by the signalling socket's READY handling
    socket,         \* self.socket: NoSock, or the UDP socket object (1 or 2)
    sockClosed,     \* whether self.socket has been closed
    ws,             \* self.ws: NoWs, or the signalling socket object (1 or 2)
    wsClosed,       \* self.ws is closed (by close() or by the server)
    wsCode,         \* the close code of self.ws: the code given to close(),
                    \* else the code the server closed with (0: not closed)
    wsReady,        \* the server's READY frame was received on self.ws
    wsKey,          \* self.ws.secret_key is not None
    wsEndpoint,     \* the endpoint self.ws was opened against
    expecting,      \* self._expecting_disconnect
    connectedEvt,   \* self._connected (threading.Event) is set
    runner,         \* self._runner is not MISSING
    channel,        \* self.voice_client.channel.id
    pc,             \* per task: the await it is suspended at
    dret,           \* per task: where disconnect() returns to
    dcleanup,       \* per task: disconnect()'s cleanup argument
    woken,          \* per task: _state_event was set while it waits in _wait_for_state
    result,         \* per task: how its last call ended
    i,              \* connect(): the loop variable
    reconnect,      \* the reconnect argument of connect() / _poll_voice_ws()
    opening,        \* _connect_websocket in progress: the endpoint it connects to
    wait,           \* connect(): the delay before the next attempt (0: not sleeping)
    out,            \* what the last step sent or called (see Outputs)
    g,              \* history, read by the properties only (see GhostInit)
    nevents, nfaults, ncalls,   \* the bounded counts (see the bounds)
    mode            \* which bounds apply: "run", "wait", "retry" or "reuse" (the voice
                    \* connection), "client" or "threads" (the gateway client)

\* The gateway client (client.py): Client, its ConnectionState (the cache) and
\* its WebSocket.  That program is threaded: the receive thread runs
\* WebSocket.received_message for each frame, a KeepAliveHandler thread sends
\* the heartbeats, and both go through Client.dispatch, under dispatch_lock.
VARIABLES
    servers,          \* connection.servers: the Server objects, in list order
    private_channels, \* connection.private_channels: ids, in list order
    messages,         \* connection.messages: the deque of Message objects
    user,             \* connection.user
    dispatch_lock,    \* the thread that holds Client.dispatch_lock ("none")
    rx,               \* the receive thread: where it is, the user callback it
                      \* runs, and what the handler does when that returns
    keep_alive,       \* KeepAliveHandler threads started and not stopped
    sent,             \* heartbeats written to the socket
    waiter,           \* how the user's last wait_for call ended ("none")
    nmsg,             \* messages the gateway has created (ids 1..nmsg)
    last,             \* the frame last received
    rep,              \* `last` repeats the frame right before it
    calls,            \* user-level events dispatched for `last`, in order
    errors,           \* the on_error calls made for `last`, in order
    scen,             \* progress of the scenario guild_create, channel_delete,
                      \* guild_delete (0: not in it)
    nframes,          \* frames received
    acked,            \* no heartbeat sent on this connection is without its
                      \* acknowledgement frame (the client keeps no such field)
    greet,            \* what _create_websocket sent last: "identify"/"resume"
    session,          \* READY (with its session id) came on this connection
    nconn,            \* times Client.run has reconnected
    ucalls,           \* calls of user code that write to the cache
    close_flag,       \* Client._close
    voice_channel,    \* Member.voice_channel of each member (0: None)
    voice_members,    \* Channel.voice_members of each channel, in list order
    vlast,            \* the last update_voice_state call
    sockev,           \* the socket-level events dispatched for the frame last
                      \* received, in order
    global_commands,  \* CommandTree._global_commands: the names in the dict
    guild_commands,   \* CommandTree._guild_commands: guild id -> names
    context_menus,    \* CommandTree._context_menus: the keys
                      \* <<name, guild id, type>> in the dict
    tres              \* how the last add_command / remove_command call ended

cache  == <<servers, private_channels, messages, user>>
gwvars == <<acked, greet, session, nconn, ucalls, close_flag>>
rostervars == <<voice_channel, voice_members, vlast>>
treevars == <<global_commands, guild_commands, context_menus, tres>>
cvars  == <<cache, dispatch_lock, rx, keep_alive, sent, waiter, nmsg, last, rep,
            calls, errors, scen, nframes, gwvars, rostervars, sockev, treevars>>
\* what no step of the voice connection changes
apart  == <<mode, cvars>>

cfields  == <<token, session_id, endpoint, server_id, ip, port, channel>>
sockvars == <<socket, sockClosed>>
wsvars   == <<ws, wsClosed, wsCode, wsReady, wsKey, wsEndpoint>>
taskvars == <<pc, dret, dcleanup, woken, result, i, reconnect, opening, wait>>
budgets  == <<nevents, nfaults, ncalls, apart>>
vvars == <<state, connectedEvt, expecting, runner, cfields, sockvars, wsvars,
           taskvars, out, g, budgets>>

\* ------------------------------------------------------------ helpers

\* str.rpartition(sep)[0]: the part before the last sep, '' when there is none
RECURSIVE LastIndexOf(_, _, _)
LastIndexOf(s, c, n) ==
    IF n = 0 THEN 0
    ELSE IF s[n] = c THEN n ELSE LastIndexOf(s, c, n - 1)

RPartitionHead(s, sep) ==
    LET k == LastIndexOf(s, sep, Len(s)) IN
    IF k = 0 THEN << >> ELSE SubSeq(s, 1, k - 1)

WssPrefix == <<"w", "s", "s", ":", "/", "/">>

StartsWith(s, pre) ==
    /\ Len(s) >= Len(pre)
    /\ SubSeq(s, 1, Len(pre)) = pre

\* voice_server_update: the endpoint kept from data['endpoint']
ParseEndpoint(e) ==
    LET h == RPartitionHead(e, ":") IN
    IF StartsWith(h, WssPrefix) THEN SubSeq(h, Len(WssPrefix) + 1, Len(h)) ELSE h

\* int(data['guild_id'])
RECURSIVE IntOf(_)
IntOf(digits) ==
    IF digits = << >> THEN 0
    ELSE 10 * IntOf(SubSeq(digits, 1, Len(digits) - 1)) + digits[Len(digits)]

MissingInt == -1

\* tasks suspended in _wait_for_state (on self._state_event.wait())
WaitLabels == {"c_wait", "pr_wait"}

\* state.setter: assigns the state, sets and clears _state_event (every task
\* waiting on it will run again and re-read the state), and sets or clears
\* _connected.  p is the running task; it is not waiting.
Wake(p) == [q \in Procs |-> IF q # p /\ pc[q] \in WaitLabels THEN TRUE ELSE woken[q]]

SetConnectedEvt(s) == (s = "connected")

\* self._connected.set() (when set): threading.Event notifies every thread
\* blocked in wait(), and the wait() of a notified thread returns True
Notified(w, set) ==
    [w EXCEPT !["waiter"] = @ \/ (set /\ pc["waiter"] = "w_wait")]

SetState(p, s) ==
    /\ state' = s
    /\ woken' = Notified(Wake(p), SetConnectedEvt(s))
    /\ connectedEvt' = SetConnectedEvt(s)

\* disconnect()'s finally block: the state setter, then
\* `self._connected.set(); self._connected.clear()`
SetDisconnected(p) ==
    /\ state' = "disconnected"
    /\ woken' = Notified(Wake(p), TRUE)
    /\ connectedEvt' = FALSE

\* a fresh object, different from the one the attribute holds now
Fresh(obj) == IF obj = 1 THEN 2 ELSE 1

\* what a step can send or call
Outputs == {"join", "leave", "cleanup", "ws_open", "ws_close", "ws_close_failed",
            "sock_new", "sock_close"}

\* ------------------------------------------------------------ history

NoneEndpoint == <<None>>
NoVs  == [channel_id |-> None, session_id |-> None]
NoSrv == [token |-> None, endpoint |-> NoneEndpoint]
NoExc == [kind |-> "none", code |-> 0, remote |-> FALSE]

\* clean:     since connect() last set set_guild_voice_state, nothing but
\*            voice_state_update(vs) and voice_server_update(srv), each at most
\*            once and each with full data, has touched the connection state
\* first:     which of the two came first ("S", "V")
\* seenS/V:   a voice_state/server_update was delivered since the last join request
\* newSocks:  UDP sockets created since set_guild_voice_state was set
\* lastExc:   the last exception of poll_event or of opening the socket;
\*            remote: raised by the environment on a socket that was open
\* timedOut:  _potential_reconnect timed out after lastExc
\* wsBy:      what opened self.ws: "c" connect(), "pr" _potential_reconnect
\* exhausted: the task whose connect() has left its loop after the last
\*            failed attempt ("none": no task)
\* moved:     a voice_state_update closed the socket of a handshake in
\*            progress (channel move), and that attempt has not ended yet
GhostInit ==
    [clean |-> FALSE, vs |-> NoVs, srv |-> NoSrv, first |-> "none",
     seenS |-> FALSE, seenV |-> FALSE, newSocks |-> 0,
     lastExc |-> NoExc, timedOut |-> FALSE, wsBy |-> "none",
     exhausted |-> "none", moved |-> FALSE]

\* vs, srv, first and newSocks are kept only while clean
Norm(r) ==
    IF r.clean THEN r
    ELSE [r EXCEPT !.vs = NoVs, !.srv = NoSrv, !.first = "none", !.newSocks = 0]

GSame  == UNCHANGED g
GTaint == g' = Norm([g EXCEPT !.clean = FALSE])
\* a join request is sent
GJoin  == g' = Norm([g EXCEPT !.clean = FALSE, !.seenS = FALSE, !.seenV = FALSE,
                         !.exhausted = "none", !.moved = FALSE,
                         !.lastExc = NoExc, !.timedOut = FALSE])
\* an attempt or a call ends
GEnd(ends) == g' = Norm([g EXCEPT !.clean = FALSE, !.moved = IF ends THEN FALSE ELSE @])
GExc(kind, code, remote) ==
    g' = Norm([g EXCEPT !.clean = FALSE, !.timedOut = FALSE,
                   !.lastExc = [kind |-> kind, code |-> code, remote |-> remote]])

\* ---------------------------------------- the gateway client: its objects

GuildIds   == {1, 2}
ChannelIds == {10, 11}
PrivateId  == 20
MemberIds  == {100, 101}

\* None, where an object is expected
NoneObj == [id |-> 0]

\* a gateway frame {op: 0, t: ..., d: ...}: its event type and the fields
\* of its data the handlers read
NoFrame == [op |-> 0, t |-> "none", guild |-> 0, id |-> 0, channel |-> 0,
            name |-> "", channels |-> <<>>, members |-> <<>>, roles |-> <<>>]

Frame(t, guild, id, name) == [NoFrame EXCEPT !.t = t, !.guild = guild, !.id = id,
                                             !.name = name]

\* a callback without arguments (on_ready)
NoArgs == [args |-> 0]

\* the receive thread between two frames
\* the members whose voice state changes, Member.voice_channel None, and the
\* record of no update_voice_state call
VoiceMemberIds == {100, 101, 102}
NoChannel == 0
NoVoiceCall == [m |-> 0, old |-> NoChannel, new |-> NoChannel]

\* no add_command or remove_command call was made
NoCall == "none"

RxIdle == [pc |-> "idle", ev |-> "none", arg |-> NoneObj, post |-> "none"]

\* Client.__init__ and ConnectionState.__init__; no socket is open yet
ClientFields ==
    /\ servers = <<>> /\ private_channels = <<>> /\ messages = <<>>
    /\ user = "none"
    /\ dispatch_lock = "none"
    /\ rx = RxIdle
    /\ keep_alive = 0 /\ sent = 0
    /\ waiter = "none"
    /\ nmsg = 0
    /\ last = NoFrame /\ rep = FALSE /\ calls = <<>> /\ errors = <<>>
    /\ scen = 0
    /\ nframes = 0
    /\ acked = TRUE /\ greet = "identify" /\ session = FALSE
    /\ nconn = 0 /\ ucalls = 0 /\ close_flag = FALSE
    /\ voice_channel = [m \in VoiceMemberIds |-> NoChannel]
    /\ voice_members = [c \in ChannelIds |-> <<>>]
    /\ vlast = NoVoiceCall
    /\ sockev = <<>>
    /\ global_commands = {} /\ guild_commands = <<>> /\ context_menus = {}
    /\ tres = NoCall

\* the state after __init__ (the voice client's channel is the one to join)
InitFields ==
    /\ state = "disconnected"
    /\ token = MISSING /\ session_id = MISSING /\ endpoint = MissingEndpoint
    /\ server_id = MissingInt
    /\ ip = MISSING /\ port = MISSING
    /\ socket = NoSock /\ sockClosed = FALSE
    /\ ws = NoWs /\ wsClosed = FALSE /\ wsCode = 0
    /\ wsReady = FALSE /\ wsKey = FALSE /\ wsEndpoint = MissingEndpoint
    /\ expecting = FALSE
    /\ connectedEvt = FALSE
    /\ runner = FALSE
    /\ channel = "c1"
    /\ pc = [p \in Procs |-> IF p = "poller" THEN "p_none" ELSE "idle"]
    /\ dret = [p \in Procs |-> "idle"]
    /\ dcleanup = [p \in Procs |-> TRUE]
    /\ woken = [p \in Procs |-> FALSE]
    /\ result = [p \in Procs |-> "none"]
    /\ i = 0
    /\ reconnect = FALSE
    /\ opening = MissingEndpoint
    /\ wait = 0
    /\ g = GhostInit
    /\ out = {}
    /\ nevents = 0 /\ nfaults = 0 /\ ncalls = 0
    /\ ClientFields

Init == InitFields /\ mode = "run"

\* the same program, with the counts bounding each attempt
InitRetry == InitFields /\ mode = "retry"

\* the same program, with counts that let connect() run twice
InitReuse == InitFields /\ mode = "reuse"

\* the same program, with a thread that calls wait(timeout)
InitWait == InitFields /\ mode = "wait"

\* ------------------------------------------------------------ the bounds

PerAttempt == mode = "retry"

EventBound == IF mode \in {"run", "wait"} THEN MaxEvents
              ELSE IF mode = "retry" THEN AttemptEvents ELSE ReuseEvents
FaultBound == IF mode \in {"run", "wait"} THEN MaxFaults
              ELSE IF mode = "retry" THEN AttemptFaults ELSE ReuseFaults
CallBound  == IF mode \in {"run", "wait"} THEN MaxCalls
              ELSE IF mode = "retry" THEN RetryCalls ELSE ReuseCalls

NoCount == UNCHANGED budgets

\* a gateway event is delivered
CountEvent ==
    /\ nevents < EventBound
    /\ nevents' = nevents + 1
    /\ UNCHANGED <<nfaults, ncalls, apart>>

FaultAllowed == nfaults < FaultBound

\* the environment fails: a timeout, a closure by the server, an exception
CountFault ==
    /\ FaultAllowed
    /\ nfaults' = nfaults + 1
    /\ UNCHANGED <<nevents, ncalls, apart>>

CountFaultIf(b) == IF b THEN CountFault ELSE NoCount

\* a join request is sent or a handshake is complete: a new phase
CountJoin ==
    /\ nevents' = IF PerAttempt THEN 0 ELSE nevents
    /\ nfaults' = IF PerAttempt THEN 0 ELSE nfaults
    /\ UNCHANGED <<ncalls, apart>>

\* the user task calls connect() or disconnect()
CountCall ==
    /\ ncalls < CallBound
    /\ ncalls' = ncalls + 1
    /\ UNCHANGED apart

\* ------------------------------------------------------------ disconnect()

\* ws.close(code): records the code and closes the socket
WsClose(code) ==
    /\ wsCode' = code
    /\ wsClosed' = TRUE

\* _voice_disconnect up to its await: the state is reset and the leave
\* request (change_voice_state(channel=None)) is sent
VoiceDisconnectSend(p) ==
    /\ SetState(p, "disconnected")
    /\ out' = {"leave"}
    /\ pc' = [pc EXCEPT ![p] = "d_leaving"]

\* Task p calls disconnect(cleanup=cleanup) (force left True, or the state
\* connected) and runs it to its first await; k is where p goes on afterwards.
\* Leaves to the caller: result, i, reconnect, opening.
DisconnectEnter(p, cleanup, k) ==
    /\ dret' = [dret EXCEPT ![p] = k]
    /\ dcleanup' = [dcleanup EXCEPT ![p] = cleanup]
    /\ IF ws # NoWs
       THEN /\ WsClose(1000)
            /\ out' = {"ws_close"}
            /\ pc' = [pc EXCEPT ![p] = "d_closing"]
            /\ UNCHANGED <<state, woken, connectedEvt>>
       ELSE /\ VoiceDisconnectSend(p)
            /\ UNCHANGED <<wsCode, wsClosed>>
    /\ UNCHANGED <<expecting, runner, cfields, sockvars, ws, wsReady, wsKey,
                   wsEndpoint>>

\* connect() ends with res for task p: the user's call returns or raises; the
\* poller's loop goes on, except on an error other than TimeoutError
ConnectReturn(p, res) ==
    /\ result' = [result EXCEPT ![p] = res]
    /\ pc' = [pc EXCEPT ![p] =
                 IF p = "user" THEN "idle"
                 ELSE IF res \in {"ok", "TimeoutError"} THEN "p_poll" ELSE "p_failed"]

\* where disconnect() returns to when its caller raises right after it
Raises == [raise_TimeoutError |-> "TimeoutError",
          raise_ConnectionClosed |-> "ConnectionClosed"]

\* returns of disconnect() with which a connection attempt is over
AttemptEnds == DOMAIN Raises \cup {"p_done", "p_failed"}

\* disconnect()'s finally block, and the return to the caller (which, in
\* connect(), may raise at once: connect() then ends)
Finally(p, outs) ==
    /\ ip' = MISSING
    /\ port' = MISSING
    /\ SetDisconnected(p)
    /\ sockClosed' = IF socket # NoSock THEN TRUE ELSE sockClosed
    /\ out' = outs \cup (IF dcleanup[p] THEN {"cleanup"} ELSE {})
                   \cup (IF socket # NoSock THEN {"sock_close"} ELSE {})
    /\ IF dret[p] \in DOMAIN Raises
       THEN /\ ConnectReturn(p, Raises[dret[p]])
            /\ i' = 0
       ELSE /\ pc' = [pc EXCEPT ![p] = dret[p]]
            /\ UNCHANGED <<result, i>>
    /\ dret' = [dret EXCEPT ![p] = "idle"]
    /\ dcleanup' = [dcleanup EXCEPT ![p] = TRUE]
    /\ UNCHANGED <<token, session_id, endpoint, server_id, channel, socket>>

\* `await self.ws.close()` ends: normally (then _voice_disconnect starts), or
\* by raising, which skips _voice_disconnect and runs the finally block
DisconnectClosed(p) ==
    /\ pc[p] = "d_closing"
    /\ \E raised \in BOOLEAN :
         IF raised
         THEN /\ Finally(p, {"ws_close_failed"})
              /\ GEnd(dret[p] \in AttemptEnds)
              /\ CountFault
              /\ UNCHANGED expecting
         ELSE /\ VoiceDisconnectSend(p)
              /\ GTaint
              /\ NoCount
              /\ UNCHANGED <<expecting, cfields, sockvars, dret, dcleanup, result, i>>
    /\ UNCHANGED <<runner, wsvars, reconnect, wait, opening>>

\* `await change_voice_state(channel=None)` ends: _expecting_disconnect is
\* set, then the finally block runs
DisconnectLeft(p) ==
    /\ pc[p] = "d_leaving"
    /\ expecting' = TRUE
    /\ Finally(p, {})
    /\ GEnd(dret[p] \in AttemptEnds)
    /\ NoCount
    /\ UNCHANGED <<runner, wsvars, reconnect, wait, opening>>

\* ------------------------------------------------ the signalling socket

\* What `await self.ws.poll_event()` can end with: a frame of the handshake
\* (READY, then SESSION_DESCRIPTION), ConnectionClosed with a close code, or
\* a timeout.  A socket already closed gives ConnectionClosed at once.
PollEvents ==
    IF ws = NoWs
    THEN {[kind |-> "AttributeError", code |-> 0]}     \* self.ws is MISSING
    ELSE IF wsClosed
    THEN {[kind |-> "ConnectionClosed", code |-> wsCode]}
    ELSE (IF FaultAllowed
          THEN {[kind |-> "ConnectionClosed", code |-> c] : c \in RemoteCodes}
               \cup {[kind |-> "TimeoutError", code |-> 0]}
          ELSE {})
         \cup (IF ~wsReady THEN {[kind |-> "READY", code |-> 0]} ELSE {})
         \cup (IF wsReady /\ ~wsKey
                THEN {[kind |-> "SESSION_DESCRIPTION", code |-> 0]} ELSE {})

IsFrame(e) == e.kind \in {"READY", "SESSION_DESCRIPTION"}

\* poll_event failed on a socket that was open: the environment's doing
IsFault(e) == ~IsFrame(e) /\ ~wsClosed /\ ws # NoWs

\* received_message for a frame: READY runs the IP discovery (ip, port),
\* SESSION_DESCRIPTION stores the secret key
ApplyFrame(e) ==
    /\ ip' = IF e.kind = "READY" THEN "ip1" ELSE ip
    /\ port' = IF e.kind = "READY" THEN "port1" ELSE port
    /\ wsReady' = (wsReady \/ e.kind = "READY")
    /\ wsKey' = (wsKey \/ e.kind = "SESSION_DESCRIPTION")
    /\ UNCHANGED <<ws, wsClosed, wsCode, wsEndpoint>>

\* DiscordVoiceWebSocket.from_connection_state succeeded: a new socket
OpenWs ==
    /\ ws' = Fresh(ws)
    /\ wsClosed' = FALSE /\ wsCode' = 0
    /\ wsReady' = FALSE /\ wsKey' = FALSE
    /\ wsEndpoint' = opening

\* _handshake_websocket, from one await to the next.  phase: the loop it is in
\* ("ip": while not self.ip, "key": while self.ws.secret_key is None), or
\* "open" right after _connect_websocket set websocket_connected.
\* Gives the state it sets last (or the state as it is) and where it waits.
HandshakeResult(phase, ipNew, keyNew) ==
    IF phase \in {"open", "ip"} /\ ipNew = MISSING
    THEN [st |-> IF phase = "open" THEN "websocket_connected" ELSE state,
          set |-> (phase = "open"), next |-> "ip"]
    ELSE IF ~keyNew
    THEN [st |-> IF phase = "key" THEN state ELSE "got_ip_discovery",
          set |-> (phase # "key"), next |-> "key"]
    ELSE [st |-> "connected", set |-> TRUE, next |-> "done"]

\* ------------------------------------------------------------ connect()

\* connect() is run by the user task and, to reconnect, by the poller
ConnProcs == {"user", "poller"}

\* _connect_websocket and _handshake_websocket run inside connect() ("c") and
\* inside _potential_reconnect ("pr"): the awaits of each
Lbl == [c  |-> [opening |-> "c_ws_opening",  ip |-> "c_hs_ip",  key |-> "c_hs_key"],
        pr |-> [opening |-> "pr_ws_opening", ip |-> "pr_hs_ip", key |-> "pr_hs_key"]]

PollerDead == pc["poller"] \in {"p_none", "p_done", "p_failed"}

\* The handshake is complete.  In connect(): the loop is left, the poller task
\* is created if self._runner is MISSING, and connect() returns.  In
\* _potential_reconnect: it returns True and the poller polls again.
HandshakeDone(p, ctx) ==
    IF ctx = "c"
    THEN /\ runner' = TRUE
         /\ result' = [result EXCEPT ![p] = "ok"]
         /\ i' = 0
         /\ pc' = IF p = "user"
                  THEN [pc EXCEPT !["user"] = "idle",
                                  !["poller"] = IF runner THEN @ ELSE "p_poll"]
                  ELSE [pc EXCEPT ![p] = "p_poll"]
    ELSE /\ pc' = [pc EXCEPT ![p] = "p_poll"]
         /\ UNCHANGED <<runner, result, i>>

\* (variant) a delay that doubles
RetryDelayDoubling(n) == 2 ^ n

\* wait = 1 + i * 2.0
RetryDelay(n) == 1 + n * 2

\* (variant) a failed handshake that is run again from the signalling step:
\* the socket is opened anew, with no disconnect() and no join request
HandshakeFailedReopens(p, ctx, exc) ==
    /\ pc' = [pc EXCEPT ![p] = Lbl[ctx].opening]
    /\ opening' = endpoint
    /\ out' = {}
    /\ UNCHANGED <<state, woken, connectedEvt, expecting, runner, cfields, sockvars,
                   wsvars, dret, dcleanup, result, i, reconnect, wait>>

\* (variant) a failed attempt torn down with the default disconnect(), which
\* calls voice_client.cleanup()
HandshakeFailedCleansUp(p, ctx, exc) ==
    /\ IF ctx = "c"
       THEN IF reconnect
            THEN DisconnectEnter(p, TRUE, "c_sleep")
            ELSE DisconnectEnter(p, TRUE, "raise_" \o exc)
       ELSE DisconnectEnter(p, TRUE, "p_done")
    /\ opening' = MissingEndpoint
    /\ wait' = IF ctx = "c" /\ reconnect THEN RetryDelay(i) ELSE wait
    /\ UNCHANGED <<result, i, reconnect>>

\* _connect_websocket or _handshake_websocket raised exc (ConnectionClosed or
\* TimeoutError).  connect(): retry after disconnect(cleanup=False) when
\* reconnect, else disconnect() and re-raise.  _potential_reconnect: it
\* returns False, and the poller disconnects and stops.
HandshakeFailed(p, ctx, exc) ==
    /\ IF ctx = "c"
       THEN IF reconnect
            THEN DisconnectEnter(p, FALSE, "c_sleep")
            ELSE DisconnectEnter(p, TRUE, "raise_" \o exc)
       ELSE DisconnectEnter(p, TRUE, "p_done")
    /\ opening' = MissingEndpoint
    /\ wait' = IF ctx = "c" /\ reconnect THEN RetryDelay(i) ELSE wait
    /\ UNCHANGED <<result, i, reconnect>>

\* the user calls connect(reconnect=r): _voice_connect sends the join request
UserConnect(r) ==
    /\ pc["user"] = "idle"
    /\ PollerDead
    /\ i' = 0
    /\ reconnect' = r
    /\ pc' = [pc EXCEPT !["user"] = "c_joining"]
    /\ result' = [result EXCEPT !["user"] = "none"]
    /\ out' = {"join"}
    /\ nevents' = (IF PerAttempt THEN 0 ELSE nevents)
    /\ nfaults' = (IF PerAttempt THEN 0 ELSE nfaults)
    /\ CountCall
    /\ GJoin
    /\ UNCHANGED <<state, connectedEvt, expecting, runner, cfields, sockvars, wsvars,
                   dret, dcleanup, woken, opening, wait>>

\* the join request is sent: state = set_guild_voice_state, and connect()
\* waits in _wait_for_state(got_both_voice_updates)
ConnectJoined(p) ==
    /\ pc[p] = "c_joining"
    /\ SetState(p, "set_guild_voice_state")
    /\ pc' = [pc EXCEPT ![p] = "c_wait"]
    /\ out' = {}
    /\ g' = Norm([g EXCEPT !.clean = TRUE, !.vs = NoVs, !.srv = NoSrv,
                     !.first = "none", !.newSocks = 0])
    /\ NoCount
    /\ UNCHANGED <<expecting, runner, cfields, sockvars, wsvars, dret, dcleanup,
                   result, i, reconnect, wait, opening>>

\* _wait_for_state runs again after _state_event was set: with both updates in,
\* _connect_websocket starts (it reads the endpoint); else it waits again
ConnectWoken(p) ==
    /\ pc[p] = "c_wait"
    /\ woken[p]
    /\ woken' = [woken EXCEPT ![p] = FALSE]
    /\ IF state = "got_both_voice_updates"
       THEN /\ opening' = endpoint
            /\ pc' = [pc EXCEPT ![p] = "c_ws_opening"]
       ELSE UNCHANGED <<opening, pc>>
    /\ out' = {}
    /\ GSame
    /\ NoCount
    /\ UNCHANGED <<state, connectedEvt, expecting, runner, cfields, sockvars, wsvars,
                   dret, dcleanup, result, i, reconnect, wait>>

\* (a variant for comparison: the timeout of the wait handled like a failed
\* handshake, retried when reconnect is enabled)
ConnectWaitTimeoutRetries(p) ==
    /\ pc[p] = "c_wait"
    /\ ~woken[p]
    /\ IF reconnect
       THEN DisconnectEnter(p, FALSE, "c_sleep")
       ELSE DisconnectEnter(p, TRUE, "raise_TimeoutError")
    /\ GTaint
    /\ CountFault
    /\ UNCHANGED <<result, i, reconnect, wait, opening>>

\* _wait_for_state times out: disconnect(), then TimeoutError is raised
ConnectWaitTimeout(p) ==
    /\ pc[p] = "c_wait"
    /\ ~woken[p]
    /\ DisconnectEnter(p, TRUE, "raise_TimeoutError")
    /\ GTaint
    /\ CountFault
    /\ UNCHANGED <<result, i, reconnect, wait, opening>>

\* `await DiscordVoiceWebSocket.from_connection_state(...)` ends
WsOpened(p, ctx) ==
    /\ pc[p] = Lbl[ctx].opening
    /\ \E r \in {"ok", "ConnectionClosed", "TimeoutError"} :
         IF r = "ok"
         THEN LET h == HandshakeResult("open", ip, FALSE) IN
              /\ OpenWs
              /\ SetState(p, h.st)
              /\ pc' = [pc EXCEPT ![p] = Lbl[ctx][h.next]]
              /\ out' = {"ws_open"}
              /\ opening' = MissingEndpoint
              /\ g' = Norm([g EXCEPT !.clean = FALSE, !.wsBy = ctx])
              /\ NoCount
              /\ UNCHANGED <<expecting, runner, cfields, sockvars, dret, dcleanup,
                             result, i, reconnect, wait>>
         ELSE /\ HandshakeFailed(p, ctx, r)
              /\ GExc(r, 0, TRUE)
              /\ CountFault

\* `await self.ws.poll_event()` ends inside _handshake_websocket
Handshake(p, ctx) ==
    /\ pc[p] \in {Lbl[ctx].ip, Lbl[ctx].key}
    /\ \E e \in PollEvents :
         IF IsFrame(e)
         THEN LET phase == IF pc[p] = Lbl[ctx].ip THEN "ip" ELSE "key"
                  h == HandshakeResult(phase,
                                       IF e.kind = "READY" THEN "ip1" ELSE ip,
                                       wsKey \/ e.kind = "SESSION_DESCRIPTION")
              IN
              /\ ApplyFrame(e)
              /\ IF h.set THEN SetState(p, h.st)
                          ELSE UNCHANGED <<state, woken, connectedEvt>>
              /\ IF h.next = "done"
                 THEN /\ HandshakeDone(p, ctx)
                      /\ CountJoin
                 ELSE /\ pc' = [pc EXCEPT ![p] = Lbl[ctx][h.next]]
                      /\ NoCount
                      /\ UNCHANGED <<runner, result, i>>
              /\ out' = {}
              /\ GTaint
              /\ UNCHANGED <<expecting, token, session_id, endpoint, server_id,
                             channel, sockvars, dret, dcleanup, reconnect, wait, opening>>
         ELSE /\ HandshakeFailed(p, ctx, e.kind)
              /\ GExc(e.kind, e.code, IsFault(e))
              /\ CountFaultIf(IsFault(e))

\* asyncio.sleep(wait) ends: the next iteration sends the join request again;
\* after the last iteration the loop is left as after a success
ConnectSleep(p) ==
    /\ pc[p] = "c_sleep"
    /\ wait' = 0
    /\ IF i + 1 < Attempts
       THEN /\ i' = i + 1
            /\ pc' = [pc EXCEPT ![p] = "c_joining"]
            /\ out' = {"join"}
            /\ GJoin
            /\ CountJoin
            /\ UNCHANGED <<runner, result>>
       ELSE /\ HandshakeDone(p, "c")
            /\ out' = {}
            /\ g' = Norm([g EXCEPT !.clean = FALSE, !.exhausted = p, !.moved = FALSE])
            /\ NoCount
    /\ UNCHANGED <<state, connectedEvt, expecting, cfields, sockvars, wsvars,
                   dret, dcleanup, woken, reconnect, opening>>

\* ------------------------------------------------------------ _poll_voice_ws

\* _wait_for_state(got_voice_server_update, got_both_voice_updates) of
\* _potential_reconnect
ReconnectStates == {"got_voice_server_update", "got_both_voice_updates"}

\* (variant) only the normal closure ends the poller
FinalCodesNormalOnly == {1000}

\* close codes after which the poller disconnects for good
FinalCodes == {1000, 4015}

\* `await self.ws.poll_event()` ends in the poller's loop
PollerPoll ==
    /\ pc["poller"] = "p_poll"
    /\ \E e \in PollEvents :
         IF IsFrame(e)
         THEN /\ ApplyFrame(e)
              /\ out' = {}
              /\ GSame
              /\ NoCount
              /\ UNCHANGED <<state, connectedEvt, expecting, runner, token, session_id,
                             endpoint, server_id, channel, sockvars, taskvars>>
         ELSE IF e.kind = "AttributeError"
         THEN \* not caught: the task ends
              /\ pc' = [pc EXCEPT !["poller"] = "p_failed"]
              /\ result' = [result EXCEPT !["poller"] = e.kind]
              /\ out' = {}
              /\ GExc(e.kind, e.code, FALSE)
              /\ NoCount
              /\ UNCHANGED <<state, connectedEvt, expecting, runner, cfields, sockvars,
                             wsvars, dret, dcleanup, woken, i, reconnect, wait, opening>>
         ELSE IF e.kind = "ConnectionClosed" /\ e.code \in FinalCodes
         THEN /\ DisconnectEnter("poller", TRUE, "p_done")
              /\ GExc(e.kind, e.code, IsFault(e))
              /\ CountFaultIf(IsFault(e))
              /\ UNCHANGED <<result, i, reconnect, wait, opening>>
         ELSE IF e.kind = "ConnectionClosed" /\ e.code = 4014
         THEN \* _potential_reconnect, to its first await
              /\ wsClosed' = TRUE
              /\ wsCode' = e.code
              /\ IF state \in ReconnectStates
                 THEN /\ opening' = endpoint
                      /\ pc' = [pc EXCEPT !["poller"] = "pr_ws_opening"]
                 ELSE /\ pc' = [pc EXCEPT !["poller"] = "pr_wait"]
                      /\ UNCHANGED opening
              /\ out' = {}
              /\ GExc(e.kind, e.code, IsFault(e))
              /\ CountFaultIf(IsFault(e))
              /\ UNCHANGED <<state, connectedEvt, expecting, runner, cfields, sockvars,
                             ws, wsReady, wsKey, wsEndpoint,
                             dret, dcleanup, woken, result, i, reconnect, wait>>
         ELSE IF ~reconnect
         THEN /\ DisconnectEnter("poller", TRUE, "p_failed")
              /\ result' = [result EXCEPT !["poller"] = e.kind]
              /\ GExc(e.kind, e.code, IsFault(e))
              /\ CountFaultIf(IsFault(e))
              /\ UNCHANGED <<i, reconnect, wait, opening>>
         ELSE \* asyncio.sleep(retry)
              /\ wsClosed' = (e.kind = "ConnectionClosed")
              /\ wsCode' = e.code
              /\ pc' = [pc EXCEPT !["poller"] = "p_backoff"]
              /\ out' = {}
              /\ GExc(e.kind, e.code, IsFault(e))
              /\ CountFaultIf(IsFault(e))
              /\ UNCHANGED <<state, connectedEvt, expecting, runner, cfields, sockvars,
                             ws, wsReady, wsKey, wsEndpoint,
                             dret, dcleanup, woken, result, i, reconnect, wait, opening>>

\* the backoff sleep ends: disconnect(cleanup=False), then sleep(0.5)
PollerBackoff ==
    /\ pc["poller"] = "p_backoff"
    /\ DisconnectEnter("poller", FALSE, "p_sleep2")
    /\ GTaint
    /\ NoCount
    /\ UNCHANGED <<result, i, reconnect, wait, opening>>

\* sleep(0.5) ends: connect(reconnect=reconnect, ...) sends the join request
PollerReconnect ==
    /\ pc["poller"] = "p_sleep2"
    /\ i' = 0
    /\ pc' = [pc EXCEPT !["poller"] = "c_joining"]
    /\ out' = {"join"}
    /\ GJoin
    /\ CountJoin
    /\ UNCHANGED <<state, connectedEvt, expecting, runner, cfields, sockvars, wsvars,
                   dret, dcleanup, woken, result, reconnect, wait, opening>>

\* (variant) a potential reconnect that asks for the voice state again: once
\* the voice_server_update is in, it sends a join request as connect() does
PotentialWokenRejoins ==
    /\ pc["poller"] = "pr_wait"
    /\ woken["poller"]
    /\ woken' = [woken EXCEPT !["poller"] = FALSE]
    /\ IF state \in ReconnectStates
       THEN /\ pc' = [pc EXCEPT !["poller"] = "c_joining"]
            /\ out' = {"join"}
       ELSE /\ out' = {}
            /\ UNCHANGED pc
    /\ GSame
    /\ NoCount
    /\ UNCHANGED <<state, connectedEvt, expecting, runner, cfields, sockvars, wsvars,
                   dret, dcleanup, result, i, reconnect, wait, opening>>

\* _potential_reconnect: _wait_for_state runs again after _state_event was set
PotentialWoken ==
    /\ pc["poller"] = "pr_wait"
    /\ woken["poller"]
    /\ woken' = [woken EXCEPT !["poller"] = FALSE]
    /\ IF state \in ReconnectStates
       THEN /\ opening' = endpoint
            /\ pc' = [pc EXCEPT !["poller"] = "pr_ws_opening"]
       ELSE UNCHANGED <<opening, pc>>
    /\ out' = {}
    /\ GSame
    /\ NoCount
    /\ UNCHANGED <<state, connectedEvt, expecting, runner, cfields, sockvars, wsvars,
                   dret, dcleanup, result, i, reconnect, wait>>

\* (variant) a timed-out _potential_reconnect handled as a recoverable
\* failure: the poller goes on to its backoff and reconnects
PotentialTimeoutRetries ==
    /\ pc["poller"] = "pr_wait"
    /\ ~woken["poller"]
    /\ pc' = [pc EXCEPT !["poller"] = "p_backoff"]
    /\ out' = {}
    /\ g' = Norm([g EXCEPT !.clean = FALSE, !.timedOut = TRUE])
    /\ CountFault
    /\ UNCHANGED <<state, connectedEvt, expecting, runner, cfields, sockvars, wsvars,
                   dret, dcleanup, woken, result, i, reconnect, wait, opening>>

\* _potential_reconnect: the wait times out, it returns False; the poller
\* calls disconnect() and leaves its loop
PotentialTimeout ==
    /\ pc["poller"] = "pr_wait"
    /\ ~woken["poller"]
    /\ DisconnectEnter("poller", TRUE, "p_done")
    /\ g' = Norm([g EXCEPT !.clean = FALSE, !.timedOut = TRUE])
    /\ CountFault
    /\ UNCHANGED <<result, i, reconnect, wait, opening>>

\* ------------------------------------------------------------ gateway events

VoiceStatePayloads ==
    {[channel_id |-> None, session_id |-> None]}
    \cup {[channel_id |-> c, session_id |-> sid] : c \in Channels, sid \in Sessions}

\* (RetrySpec delivers one endpoint only)
VoiceServerPayloads ==
    {[token |-> t, endpoint |-> e] :
        t \in Tokens \cup {None},
        e \in (IF PerAttempt THEN {RetryEndpoint} ELSE Endpoints) \cup {NoneEndpoint}}

\* the states of a handshake in progress
MidHandshake == {"websocket_connected", "got_websocket_ready", "got_ip_discovery"}

\* (variant) voice_state_update that advances from set_guild_voice_state only
AfterVoiceStateFirstOnly(s) == "got_voice_state_update"

\* (variant) voice_server_update that advances from set_guild_voice_state only
AfterVoiceServerFirstOnly(s) == "got_voice_server_update"

\* a task is in _handshake_websocket, on a socket that is open
HandshakeRunning ==
    /\ ~wsClosed
    /\ \E p \in ConnProcs : pc[p] \in {"c_hs_ip", "c_hs_key", "pr_hs_ip", "pr_hs_key"}

\* voice_state_update while connecting: the state it moves to
AfterVoiceState(s) ==
    IF s = "set_guild_voice_state" THEN "got_voice_state_update"
    ELSE "got_both_voice_updates"

\* voice_server_update while connecting: the state it moves to
AfterVoiceServer(s) ==
    IF s = "set_guild_voice_state" THEN "got_voice_server_update"
    ELSE "got_both_voice_updates"

\* voice_state_update(data)
VoiceStateUpdate(data) ==
    /\ pc["vsu"] = "idle"
    /\ CountEvent
    /\ g' = Norm([g EXCEPT
               !.seenS = TRUE,
               !.clean = @ /\ data.channel_id # None /\ g.vs = NoVs,
               !.vs = IF g.clean /\ data.channel_id # None /\ g.vs = NoVs
                      THEN data ELSE @,
               !.first = IF g.clean /\ data.channel_id # None /\ @ = "none"
                         THEN "S" ELSE @,
               !.moved = @ \/ ( /\ data.channel_id \notin {None, channel}
                                /\ state \in MidHandshake
                                /\ HandshakeRunning )])
    /\ IF data.channel_id = None
       THEN IF expecting
            THEN /\ expecting' = FALSE
                 /\ out' = {}
                 /\ UNCHANGED <<state, connectedEvt, runner, cfields, sockvars, wsvars,
                                taskvars>>
            ELSE /\ DisconnectEnter("vsu", TRUE, "idle")
                 /\ UNCHANGED <<result, i, reconnect, wait, opening>>
       ELSE /\ session_id' = data.session_id
            /\ IF state \in {"set_guild_voice_state", "got_voice_server_update"}
               THEN /\ SetState("vsu", AfterVoiceState(state))
                    /\ out' = {}
                    /\ UNCHANGED <<channel, wsvars, result>>
               ELSE IF state = "connected"
               THEN /\ channel' = data.channel_id
                    /\ out' = {}
                    /\ UNCHANGED <<state, woken, connectedEvt, wsvars, result>>
               ELSE IF state # "disconnected" /\ data.channel_id # channel
               THEN \* moved during the connection flow: await self.ws.close(4014)
                    /\ channel' = data.channel_id
                    /\ IF ws = NoWs
                       THEN /\ result' = [result EXCEPT !["vsu"] = "AttributeError"]
                            /\ out' = {}
                            /\ UNCHANGED wsvars
                       ELSE /\ WsClose(4014)
                            /\ out' = {"ws_close"}
                            /\ UNCHANGED <<result, ws, wsReady, wsKey, wsEndpoint>>
                    /\ UNCHANGED <<state, woken, connectedEvt>>
               ELSE /\ out' = {}
                    /\ UNCHANGED <<state, woken, connectedEvt, channel, wsvars, result>>
            /\ UNCHANGED <<expecting, runner, token, endpoint, server_id, ip, port,
                           sockvars, pc, dret, dcleanup, i, reconnect, wait, opening>>

\* voice_server_update(data), to its end or to `await self.ws.close(4014)`
VoiceServerUpdate(data) ==
    /\ pc["vsrv"] = "idle"
    /\ CountEvent
    /\ LET full == data.token # None /\ data.endpoint # NoneEndpoint IN
       g' = Norm([g EXCEPT
               !.seenV = TRUE,
               !.clean = @ /\ full /\ g.srv = NoSrv,
               !.srv = IF g.clean /\ full /\ g.srv = NoSrv THEN data ELSE @,
               !.first = IF g.clean /\ full /\ @ = "none" THEN "V" ELSE @,
               !.newSocks = IF full /\ state \in {"set_guild_voice_state",
                                                   "got_voice_state_update"}
                            THEN @ + 1 ELSE @])
    /\ token' = data.token
    /\ server_id' = IntOf(GuildId)
    /\ IF data.token = None \/ data.endpoint = NoneEndpoint
       THEN /\ out' = {}
            /\ UNCHANGED <<endpoint, state, woken, connectedEvt, sockvars, wsvars, pc>>
       ELSE /\ endpoint' = ParseEndpoint(data.endpoint)
            /\ IF state \in {"set_guild_voice_state", "got_voice_state_update"}
               THEN /\ socket' = Fresh(socket)
                    /\ sockClosed' = FALSE
                    /\ SetState("vsrv", AfterVoiceServer(state))
                    /\ out' = {"sock_new"}
                    /\ UNCHANGED <<wsvars, pc>>
               ELSE IF state = "connected"
               THEN /\ WsClose(4014)
                    /\ pc' = [pc EXCEPT !["vsrv"] = "s_closing"]
                    /\ out' = {"ws_close"}
                    /\ UNCHANGED <<state, woken, connectedEvt, sockvars, ws,
                                   wsReady, wsKey, wsEndpoint>>
               ELSE /\ out' = {}
                    /\ UNCHANGED <<state, woken, connectedEvt, sockvars, wsvars, pc>>
    /\ UNCHANGED <<expecting, runner, session_id, ip, port, channel, dret, dcleanup,
                   result, i, reconnect, wait, opening>>

\* voice_server_update after `await self.ws.close(4014)`
VoiceServerClosed ==
    /\ pc["vsrv"] = "s_closing"
    /\ SetState("vsrv", "got_both_voice_updates")
    /\ pc' = [pc EXCEPT !["vsrv"] = "idle"]
    /\ out' = {}
    /\ GTaint
    /\ NoCount
    /\ UNCHANGED <<expecting, runner, cfields, sockvars, wsvars, dret, dcleanup,
                   result, i, reconnect, wait, opening>>

\* ------------------------------------------------------------ the user

\* is_connected()
IsConnected == state = "connected"

\* the user calls disconnect(force=force)
UserDisconnect(force) ==
    /\ pc["user"] = "idle"
    /\ CountCall
    /\ GTaint
    /\ UNCHANGED <<nevents, nfaults>>
    /\ IF ~force /\ ~IsConnected
       THEN /\ out' = {}
            /\ UNCHANGED <<state, connectedEvt, expecting, runner, cfields, sockvars,
                           wsvars, pc, dret, dcleanup, woken>>
       ELSE DisconnectEnter("user", TRUE, "idle")
    /\ UNCHANGED <<result, i, reconnect, wait, opening>>

\* ------------------------------------------------------------ specification

VoiceNext ==
    \/ \E r \in BOOLEAN : UserConnect(r)
    \/ \E f \in BOOLEAN : UserDisconnect(f)
    \/ \E p \in ConnProcs : ConnectJoined(p)
    \/ \E p \in ConnProcs : ConnectWoken(p)
    \/ \E p \in ConnProcs : ConnectWaitTimeout(p)
    \/ \E p \in ConnProcs : WsOpened(p, "c")
    \/ \E p \in ConnProcs : Handshake(p, "c")
    \/ \E p \in ConnProcs : ConnectSleep(p)
    \/ \E p \in Procs : DisconnectClosed(p)
    \/ \E p \in Procs : DisconnectLeft(p)
    \/ PollerPoll
    \/ PollerBackoff
    \/ PollerReconnect
    \/ PotentialWoken
    \/ PotentialTimeout
    \/ WsOpened("poller", "pr")
    \/ Handshake("poller", "pr")
    \/ \E d \in VoiceStatePayloads : VoiceStateUpdate(d)
    \/ \E d \in VoiceServerPayloads : VoiceServerUpdate(d)
    \/ VoiceServerClosed

VoiceSpec == Init /\ [][VoiceNext]_vvars

RetrySpec == InitRetry /\ [][VoiceNext]_vvars

ReuseSpec == InitReuse /\ [][VoiceNext]_vvars

\* ------------------------------------------------------------ wait()

\* a thread calls wait(timeout): threading.Event.wait returns True at once
\* when the event is set, else the thread blocks
WaitCall ==
    /\ pc["waiter"] = "idle"
    /\ IF connectedEvt
       THEN /\ result' = [result EXCEPT !["waiter"] = "True"]
            /\ UNCHANGED pc
       ELSE /\ result' = [result EXCEPT !["waiter"] = "none"]
            /\ pc' = [pc EXCEPT !["waiter"] = "w_wait"]
    /\ woken' = [woken EXCEPT !["waiter"] = FALSE]
    /\ out' = {}
    /\ GSame
    /\ NoCount
    /\ UNCHANGED <<state, connectedEvt, expecting, runner, cfields, sockvars, wsvars,
                   dret, dcleanup, i, reconnect, wait, opening>>

\* the blocked wait() returns: True when the thread was notified, False when
\* the timeout ran out
WaitReturn ==
    /\ pc["waiter"] = "w_wait"
    /\ result' = [result EXCEPT !["waiter"] = IF woken["waiter"] THEN "True" ELSE "False"]
    /\ pc' = [pc EXCEPT !["waiter"] = "idle"]
    /\ woken' = [woken EXCEPT !["waiter"] = FALSE]
    /\ out' = {}
    /\ GSame
    /\ NoCount
    /\ UNCHANGED <<state, connectedEvt, expecting, runner, cfields, sockvars, wsvars,
                   dret, dcleanup, i, reconnect, wait, opening>>

WaitNext ==
    \/ VoiceNext
    \/ WaitCall
    \/ WaitReturn

WaitSpec == InitWait /\ [][WaitNext]_vvars

\* ------------------------------------------------------------ properties

\* both updates, each once and with full data, were handled since connect()
\* set set_guild_voice_state, and nothing else touched the connection state
BothUpdatesIn == g.clean /\ g.vs # NoVs /\ g.srv # NoSrv

HandshakeLabels == {"c_hs_ip", "c_hs_key"}

\* C1: after the join request, one voice_state_update with a channel and one
\* voice_server_update with token and endpoint, in either order, give the
\* state got_both_voice_updates, and connect(), woken by it, goes on to open
\* the signalling socket; the socket's opening gives websocket_connected
\* (got_ip_discovery at once when an ip is left from an earlier connection),
\* its READY frame got_ip_discovery, and its SESSION_DESCRIPTION frame
\* connected, with which connect() returns.
C1_ReachesConnected ==
    /\ [](BothUpdatesIn =>
            /\ state = "got_both_voice_updates"
            /\ \E p \in ConnProcs : \/ (pc[p] = "c_wait" /\ woken[p])
                                     \/ pc[p] = "c_ws_opening")
    /\ [][\A p \in ConnProcs :
            /\ (pc[p] = "c_ws_opening" /\ ws' # ws)
                  => IF ip = MISSING
                     THEN state' = "websocket_connected" /\ pc'[p] = "c_hs_ip"
                     ELSE state' = "got_ip_discovery" /\ pc'[p] = "c_hs_key"
            /\ (pc[p] \in HandshakeLabels /\ ~wsReady /\ wsReady')
                  => (state' = "got_ip_discovery" /\ pc'[p] = "c_hs_key")
            /\ (pc[p] \in HandshakeLabels /\ ~wsKey /\ wsKey')
                  => (state' = "connected" /\ result'[p] = "ok"
                        /\ pc'[p] \notin HandshakeLabels)]_vvars

\* C1 witness: connect() of the user has returned with the state connected,
\* on the socket it opened after both updates arrived
C1_Witness ==
    /\ state = "connected" /\ result["user"] = "ok" /\ pc["user"] = "idle"
    /\ g.wsBy = "c" /\ g.seenS /\ g.seenV /\ wsReady /\ wsKey /\ ~wsClosed

\* C2: from set_guild_voice_state, voice_state_update(S) and
\* voice_server_update(V) give the same connection state in both orders: the
\* state got_both_voice_updates, S's session id, V's token, the endpoint
\* parsed from V's, the guild's id as server_id, and one new UDP socket, open.
C2_OrderIndependent ==
    BothUpdatesIn =>
        /\ state = "got_both_voice_updates"
        /\ session_id = g.vs.session_id
        /\ token = g.srv.token
        /\ endpoint = ParseEndpoint(g.srv.endpoint)
        /\ server_id = IntOf(GuildId)
        /\ g.newSocks = 1 /\ socket # NoSock /\ ~sockClosed

\* C2 witness: both are in, voice_server_update first
C2_Witness ==
    /\ BothUpdatesIn /\ g.first = "V"
    /\ endpoint = <<"b">> /\ server_id = 42

\* the other order is reached too
C2_WitnessStateFirst == BothUpdatesIn /\ g.first = "S"

\* C3: connect() opens the signalling socket (state websocket_connected) only
\* when a voice_state_update and a voice_server_update were both delivered
\* since the attempt's join request was sent.
C3_OpensAfterBothUpdates ==
    (state = "websocket_connected" /\ g.wsBy = "c") => (g.seenS /\ g.seenV)

\* C4: when voice_server_update, in state connected, has closed the signalling
\* socket, the poller task is there to see the closure and to open the new
\* socket.
C4_PollerReopens ==
    [][(pc["vsrv"] = "idle" /\ pc'["vsrv"] = "s_closing")
         => (wsClosed' /\ wsCode' = 4014 /\ ~PollerDead)]_vvars

\* the disconnect() that connect() runs after a failed handshake
FailureReturns == {"c_sleep", "raise_ConnectionClosed", "raise_TimeoutError"}

InDisconnect == {"d_closing", "d_leaving"}

\* C6: when _potential_reconnect, entered on close code 4014, times out
\* waiting for a voice_server_update, the poller calls disconnect(); when that
\* returns the state is disconnected and the poller has left its loop (p_done),
\* where it stays; from the timeout on it makes no reconnect attempt.
C6_TimeoutIsTerminal ==
    /\ [](g.timedOut => pc["poller"] \in InDisconnect \cup {"p_done"})
    /\ [][/\ (pc["poller"] = "pr_wait" /\ ~g.timedOut /\ g.timedOut')
               => /\ pc'["poller"] \in InDisconnect
                  /\ dret'["poller"] = "p_done"
                  /\ g.lastExc.code = 4014
          /\ (pc["poller"] \in InDisconnect /\ dret["poller"] = "p_done"
                 /\ pc'["poller"] \notin InDisconnect)
               => (pc'["poller"] = "p_done" /\ state' = "disconnected")
          /\ (g.timedOut /\ pc["poller"] \in InDisconnect \cup {"p_done"})
               => ("join" \notin out' \/ pc'["user"] = "c_joining")
          /\ pc["poller"] = "p_done" => pc'["poller"] = "p_done"]_vvars

\* C6 witness: the server closed the socket with 4014, the wait timed out,
\* and the poller has ended with the state disconnected
C6_Witness ==
    /\ g.timedOut /\ pc["poller"] = "p_done" /\ state = "disconnected"
    /\ g.lastExc = [kind |-> "ConnectionClosed", code |-> 4014, remote |-> TRUE]

PotentialLabels == {"pr_wait", "pr_ws_opening", "pr_hs_ip", "pr_hs_key"}

\* the poller takes a step
PollerSteps ==
    \/ pc'["poller"] # pc["poller"]
    \/ (pc["poller"] \in {"pr_hs_ip", "pr_hs_key"}
          /\ (wsReady' # wsReady \/ wsKey' # wsKey))

\* C7: in _potential_reconnect (entered on close code 4014) the poller is
\* woken by every state assignment, so by the one a voice_server_update
\* makes; it then opens the signalling socket against the endpoint as it is
\* and runs the handshake; no step of it sends a join request, and up to the
\* completed handshake no step of it sends a leave request or assigns a state
\* other than websocket_connected, got_ip_discovery and connected.
C7_ReopensWithoutJoin ==
    /\ []((pc["poller"] = "pr_wait" /\ state \in ReconnectStates) => woken["poller"])
    /\ [][/\ (pc["poller"] = "pr_wait" /\ pc'["poller"] = "pr_ws_opening")
               => (state \in ReconnectStates /\ opening' = endpoint)
          /\ (pc["poller"] = "pr_ws_opening" /\ ws' # ws)
               => (wsEndpoint' = opening /\ ~wsClosed'
                      /\ pc'["poller"] \in {"pr_hs_ip", "pr_hs_key"})
          /\ (pc["poller"] \in PotentialLabels /\ ~wsKey /\ wsKey')
               => (state' = "connected" /\ pc'["poller"] = "p_poll")
          /\ (pc["poller"] \in PotentialLabels /\ PollerSteps)
               => /\ "join" \notin out'
                  /\ pc'["poller"] \in PotentialLabels \cup {"p_poll"}
                       => /\ "leave" \notin out'
                          /\ state' \in {state, "websocket_connected",
                                          "got_ip_discovery", "connected"}]_vvars

\* C7 witness: the server closed the socket with 4014, a voice_server_update
\* came, and the poller is polling the socket it opened, the state connected
C7_Witness ==
    /\ pc["poller"] = "p_poll" /\ state = "connected" /\ g.wsBy = "pr"
    /\ ~wsClosed /\ wsKey
    /\ g.lastExc = [kind |-> "ConnectionClosed", code |-> 4014, remote |-> TRUE]

\* the delays before the second, third, ... attempt
Delays == <<1, 3, 5, 7, 9>>

PollRaised ==
    /\ pc["poller"] = "p_poll" /\ pc'["poller"] # "p_poll"
    /\ g'.lastExc.kind \in {"ConnectionClosed", "TimeoutError"}

\* the poller calls disconnect() (with cleanup), to go on at k afterwards
PollerDisconnects(k) ==
    /\ pc'["poller"] \in InDisconnect
    /\ dret'["poller"] = k /\ dcleanup'["poller"]

FatalClosure ==
    g'.lastExc.kind = "ConnectionClosed" /\ g'.lastExc.code \in {1000, 4015}

\* (a) close code 1000 or 4015: disconnect(), and the loop is left
TerminalA == (PollRaised /\ FatalClosure) => PollerDisconnects("p_done")

\* (c) connect() with reconnect disabled: a failed opening or handshake runs
\* disconnect(), and that error is raised
TerminalC ==
    \A p \in ConnProcs :
        (~reconnect /\ pc[p] \in {"c_ws_opening", "c_hs_ip", "c_hs_key"}
           /\ pc'[p] \in InDisconnect)
          => (dret'[p] = "raise_" \o g'.lastExc.kind /\ dcleanup'[p])

\* the terminal disconnect() returns: the state is disconnected, no join
\* request is sent, connect() raises its error to the user, the poller has
\* ended (by the error, when it re-raises), and an ended poller stays ended
TerminalReturn ==
    /\ (~reconnect /\ pc["user"] \in InDisconnect /\ dret["user"] \in DOMAIN Raises
          /\ pc'["user"] \notin InDisconnect)
         => /\ state' = "disconnected"
            /\ "join" \notin out'
            /\ pc'["user"] = "idle"
            /\ result'["user"] = Raises[dret["user"]]
    /\ (pc["poller"] \in InDisconnect /\ dret["poller"] \in {"p_done", "p_failed"}
          /\ pc'["poller"] \notin InDisconnect)
         => /\ state' = "disconnected"
            /\ "join" \notin out'
            /\ pc'["poller"] = dret["poller"]
            /\ dret["poller"] = "p_failed"
                 => result'["poller"] \in {"ConnectionClosed", "TimeoutError"}
    /\ pc["poller"] \in {"p_done", "p_failed"} => pc'["poller"] = pc["poller"]

\* C9 as stated: (a) and (c), and (b) with reconnect disabled every other
\* closure, and a timeout, seen by the poller is terminal and is raised.
C9_TerminalFailures ==
    [][/\ TerminalA
       /\ (PollRaised /\ ~FatalClosure /\ ~reconnect)
            => (PollerDisconnects("p_failed")
                  /\ result'["poller"] = g'.lastExc.kind)
       /\ TerminalC
       /\ TerminalReturn]_vvars

\* C9 amended: (a) and (c), and (b) for every closure but the one with code
\* 4014: with reconnect disabled, a timeout and a closure with a code other
\* than 1000, 4014 and 4015 seen by the poller is terminal and is raised.
\* On code 4014 the poller runs _potential_reconnect whatever the reconnect
\* flag: it waits for a voice_server_update or opens the socket again.
C9_TerminalFailuresBut4014 ==
    [][/\ TerminalA
       /\ (PollRaised /\ ~FatalClosure /\ ~reconnect)
            => IF g'.lastExc.kind = "ConnectionClosed" /\ g'.lastExc.code = 4014
               THEN pc'["poller"] \in {"pr_wait", "pr_ws_opening"}
               ELSE /\ PollerDisconnects("p_failed")
                    /\ result'["poller"] = g'.lastExc.kind
       /\ TerminalC
       /\ TerminalReturn]_vvars

\* C9 witness: reconnect disabled, the server closed the socket with a
\* recoverable code: the poller has disconnected and ended with that error
C9_Witness ==
    /\ ~reconnect /\ pc["poller"] = "p_failed" /\ state = "disconnected"
    /\ result["poller"] = "ConnectionClosed"
    /\ g.lastExc = [kind |-> "ConnectionClosed", code |-> 4006, remote |-> TRUE]

\* a disconnect() that is called with force left True: every call but the
\* user's own
ForcedCall(p) == p # "user" \/ dret[p] # "idle"

\* C10: a disconnect() with force=True returns only after the leave request
\* was sent, with the signalling socket closed if there is one, the UDP
\* socket closed if there is one, the state disconnected, ip and port cleared.
C10_DisconnectAlwaysLeaves ==
    [][\A p \in Procs :
         (ForcedCall(p) /\ pc[p] \in InDisconnect /\ pc'[p] \notin InDisconnect)
           => /\ pc[p] = "d_leaving"
              /\ state' = "disconnected"
              /\ ip' = MISSING /\ port' = MISSING
              /\ ws # NoWs => wsClosed'
              /\ socket # NoSock => sockClosed']_vvars

RECURSIVE FindFrom(_, _, _)
FindFrom(seq, id, k) ==
    IF k > Len(seq) THEN 0
    ELSE IF seq[k].id = id THEN k ELSE FindFrom(seq, id, k + 1)

Find(seq, id) == FindFrom(seq, id, 1)

\* list.remove(seq[k]) / deque.remove(seq[k])
RemoveAt(seq, k) == [j \in 1..(Len(seq) - 1) |-> IF j < k THEN seq[j] ELSE seq[j + 1]]

\* (a variant for comparison: a deque without maxlen)
DequeAppendUnbounded(seq, x, n) == Append(seq, x)

\* deque([], maxlen=n).append(x): the oldest element is discarded when full
DequeAppend(seq, x, n) ==
    LET all == Append(seq, x) IN
    IF Len(all) <= n THEN all ELSE SubSeq(all, Len(all) - n + 1, Len(all))

\* the channels of the servers, in the order get_channel walks them
RECURSIVE AllChannels(_)
AllChannels(srvs) ==
    IF srvs = <<>> THEN <<>> ELSE Head(srvs).channels \o AllChannels(Tail(srvs))

\* ConnectionState.get_channel(id): the id of the channel or private channel
\* found (0: None)
get_channel(id) ==
    IF id = 0 THEN 0
    ELSE IF Find(AllChannels(servers), id) # 0 THEN id
    ELSE IF \E k \in 1..Len(private_channels) : private_channels[k] = id THEN id
    ELSE 0

\* the roles of every guild payload, and the role ids of each member payload
GuildRoles == <<5, 7>>
PayloadRoles(id) == IF id = 100 THEN <<5>> ELSE <<7, 6>>

\* an entry of a roles list: a Role object, or a role id left as it came
Role(id)   == [id |-> id]
RoleId(id) == [raw |-> id]

\* Channel(server=server, **channel), Member(**member): the fields kept here;
\* Member.__init__ stores the roles it is given
NewChannel(id) == [id |-> id, name |-> "a"]
Member(id, roles) == [id |-> id, name |-> "a", status |-> "offline", roles |-> roles]

\* Member(server=server, deaf=False, mute=False, **data) of
\* handle_guild_member_add: the role ids of the payload, as they are
NewMember(id) ==
    Member(id, [k \in 1..Len(PayloadRoles(id)) |-> RoleId(PayloadRoles(id)[k])])

IsIn(x, seq) == \E k \in 1..Len(seq) : seq[k] = x

\* _add_server, for one member: roles[j] = role where utils.find gives a role
\* of the guild with that id; the other entries stay role ids
ResolveRoles(ids, roles) ==
    [k \in 1..Len(ids) |-> IF IsIn(ids[k], roles) THEN Role(ids[k]) ELSE RoleId(ids[k])]

\* the member _add_server builds from the member payload
ServerMember(id) == Member(id, ResolveRoles(PayloadRoles(id), GuildRoles))

\* ConnectionState._add_server: the Server built from a guild payload with
\* the given channel ids and member ids (no presences)
NewServer(id, chans, mems) ==
    [id |-> id,
     roles |-> [k \in 1..Len(GuildRoles) |-> Role(GuildRoles[k])],
     channels |-> [k \in 1..Len(chans) |-> NewChannel(chans[k])],
     members  |-> [k \in 1..Len(mems) |-> ServerMember(mems[k])]]

\* ----------------------------------------------- the handlers of the cache
\* Each handler is given the frame's data and returns the cache it leaves
\* and how it goes on: k = "done" (it returns), "raise" (it raises ev), or
\* "dispatch" (it calls self.dispatch(ev, arg); post is what it does when
\* that call has returned).

Cache == [s |-> servers, p |-> private_channels, m |-> messages, u |-> user]

Done(c)    == [c |-> c, k |-> "done", ev |-> "none", arg |-> NoneObj, post |-> "none"]
Raise(c, exc) == [c |-> c, k |-> "raise", ev |-> exc, arg |-> NoneObj, post |-> "none"]
Dispatch(c, ev, arg, post) == [c |-> c, k |-> "dispatch", ev |-> ev, arg |-> arg,
                               post |-> post]

\* servers with the server at place k replaced
WithServer(k, srv) == [Cache EXCEPT !.s = [servers EXCEPT ![k] = srv]]

\* handle_ready: the user, the guilds (here none, or one) and the private
\* channels (here none, or one) of the payload; then dispatch('ready')
handle_ready(f) ==
    LET srvs == IF f.guild = 0 THEN servers
                ELSE Append(servers, NewServer(f.guild, f.channels, f.members))
        pms  == IF f.id = 0 THEN private_channels ELSE Append(private_channels, f.id)
    IN  Dispatch([Cache EXCEPT !.s = srvs, !.p = pms, !.u = "me"], "ready", NoArgs,
                 "none")

\* handle_message_create: the message is dispatched, then appended
handle_message_create(f) ==
    LET message == [id |-> f.id, channel |-> get_channel(f.channel),
                    content |-> f.name]
    IN  Dispatch(Cache, "message", message, "append")

\* (a variant for comparison: remove without the `found is not None` test)
handle_message_delete_unchecked(f) ==
    LET k == Find(messages, f.id) IN
    IF k # 0 THEN Dispatch(Cache, "message_delete", messages[k], "remove")
    ELSE Dispatch(Cache, "message_delete", NoneObj, "remove")

\* handle_message_delete: the message is dispatched, then removed
handle_message_delete(f) ==
    LET k == Find(messages, f.id) IN
    IF k # 0 THEN Dispatch(Cache, "message_delete", messages[k], "remove")
    ELSE Done(Cache)

\* handle_message_update: a copy of the cached message gets the payload's
\* fields and is dispatched with the old one; `older_message = message`
\* rebinds a local name, the deque keeps the old object
handle_message_update(f) ==
    LET k == Find(messages, f.id) IN
    IF k # 0
    THEN Dispatch(Cache, "message_edit",
                  [id |-> f.id, before |-> messages[k],
                   after |-> [messages[k] EXCEPT !.content = f.name]], "none")
    ELSE Done(Cache)

\* handle_presence_update: status of a cached member; 'status' is dispatched,
\* then 'member_update'
handle_presence_update(f) ==
    LET g1 == Find(servers, f.guild) IN
    IF g1 = 0 THEN Done(Cache)
    ELSE LET m1 == Find(servers[g1].members, f.id) IN
         IF m1 = 0 THEN Done(Cache)
         ELSE LET member == [servers[g1].members[m1] EXCEPT !.status = f.name] IN
              Dispatch(WithServer(g1, [servers[g1] EXCEPT !.members[m1] = member]),
                       "status", member, "member_update")

\* handle_user_update
handle_user_update(f) == Done([Cache EXCEPT !.u = f.name])

\* handle_channel_delete: server.channels.remove(None) raises ValueError
handle_channel_delete(f) ==
    LET g1 == Find(servers, f.guild) IN
    IF g1 = 0 THEN Done(Cache)
    ELSE LET c1 == Find(servers[g1].channels, f.id) IN
         IF c1 = 0 THEN Raise(Cache, "ValueError")
         ELSE Dispatch(WithServer(g1, [servers[g1] EXCEPT
                                         !.channels = RemoveAt(@, c1)]),
                       "channel_delete", servers[g1].channels[c1], "none")

\* handle_channel_update: None.update(...) raises AttributeError
handle_channel_update(f) ==
    LET g1 == Find(servers, f.guild) IN
    IF g1 = 0 THEN Done(Cache)
    ELSE LET c1 == Find(servers[g1].channels, f.id) IN
         IF c1 = 0 THEN Raise(Cache, "AttributeError")
         ELSE LET ch == [servers[g1].channels[c1] EXCEPT !.name = f.name] IN
              Dispatch(WithServer(g1, [servers[g1] EXCEPT !.channels[c1] = ch]),
                       "channel_update", ch, "none")

\* handle_channel_create: a private channel (f.guild = 0) or a channel of a
\* cached server; with no such server, channel stays None and is dispatched
handle_channel_create(f) ==
    IF f.guild = 0
    THEN Dispatch([Cache EXCEPT !.p = Append(private_channels, f.id)],
                  "channel_create", [id |-> f.id], "none")
    ELSE LET g1 == Find(servers, f.guild) IN
         IF g1 = 0 THEN Dispatch(Cache, "channel_create", NoneObj, "none")
         ELSE Dispatch(WithServer(g1, [servers[g1] EXCEPT
                                         !.channels = Append(@, NewChannel(f.id))]),
                       "channel_create", NewChannel(f.id), "none")

\* handle_guild_member_add: None.members raises AttributeError
handle_guild_member_add(f) ==
    LET g1 == Find(servers, f.guild) IN
    IF g1 = 0 THEN Raise(Cache, "AttributeError")
    ELSE Dispatch(WithServer(g1, [servers[g1] EXCEPT
                                    !.members = Append(@, NewMember(f.id))]),
                  "member_join", NewMember(f.id), "none")

\* handle_guild_member_remove: None.members raises AttributeError,
\* server.members.remove(None) raises ValueError
handle_guild_member_remove(f) ==
    LET g1 == Find(servers, f.guild) IN
    IF g1 = 0 THEN Raise(Cache, "AttributeError")
    ELSE LET m1 == Find(servers[g1].members, f.id) IN
         IF m1 = 0 THEN Raise(Cache, "ValueError")
         ELSE Dispatch(WithServer(g1, [servers[g1] EXCEPT
                                         !.members = RemoveAt(@, m1)]),
                       "member_remove", servers[g1].members[m1], "none")

\* (a variant for comparison: the roles of the payload are added to the
\* roles the member has)
UpdatedRolesAdding(old, roles, ids) ==
    LET Named(r) == IsIn(r.id, ids) IN old \o SelectSeq(roles, Named)

\* member.roles = []; then each role of server.roles, in that order, whose id
\* is in data['roles']
UpdatedRoles(old, roles, ids) ==
    LET Named(r) == IsIn(r.id, ids) IN SelectSeq(roles, Named)

\* handle_guild_member_update: None.members raises AttributeError
handle_guild_member_update(f) ==
    LET g1 == Find(servers, f.guild) IN
    IF g1 = 0 THEN Raise(Cache, "AttributeError")
    ELSE LET m1 == Find(servers[g1].members, f.id) IN
         IF m1 = 0 THEN Done(Cache)
         ELSE LET member == [servers[g1].members[m1] EXCEPT
                               !.name = f.name,
                               !.roles = UpdatedRoles(@, servers[g1].roles, f.roles)] IN
              Dispatch(WithServer(g1, [servers[g1] EXCEPT !.members[m1] = member]),
                       "member_update", member, "none")

\* handle_guild_create: _add_server, then dispatch of self.servers[-1]
handle_guild_create(f) ==
    LET srv == NewServer(f.guild, f.channels, f.members) IN
    Dispatch([Cache EXCEPT !.s = Append(servers, srv)], "server_create", srv, "none")

\* (a variant for comparison: the server stays in the list)
handle_guild_delete_keeps(f) ==
    LET g1 == Find(servers, f.id) IN
    IF g1 = 0 THEN Raise(Cache, "ValueError")
    ELSE Dispatch(Cache, "server_delete", servers[g1], "none")

\* handle_guild_delete: self.servers.remove(None) raises ValueError
handle_guild_delete(f) ==
    LET g1 == Find(servers, f.id) IN
    IF g1 = 0 THEN Raise(Cache, "ValueError")
    ELSE Dispatch([Cache EXCEPT !.s = RemoveAt(servers, g1)],
                  "server_delete", servers[g1], "none")

\* Client.handle_socket_update: getattr(self.connection, 'handle_' + event.lower())
handle_socket_update(f) ==
    CASE f.t = "READY"               -> handle_ready(f)
      [] f.t = "MESSAGE_CREATE"      -> handle_message_create(f)
      [] f.t = "MESSAGE_DELETE"      -> handle_message_delete(f)
      [] f.t = "MESSAGE_UPDATE"      -> handle_message_update(f)
      [] f.t = "PRESENCE_UPDATE"     -> handle_presence_update(f)
      [] f.t = "USER_UPDATE"         -> handle_user_update(f)
      [] f.t = "CHANNEL_DELETE"      -> handle_channel_delete(f)
      [] f.t = "CHANNEL_UPDATE"      -> handle_channel_update(f)
      [] f.t = "CHANNEL_CREATE"      -> handle_channel_create(f)
      [] f.t = "GUILD_MEMBER_ADD"    -> handle_guild_member_add(f)
      [] f.t = "GUILD_MEMBER_REMOVE" -> handle_guild_member_remove(f)
      [] f.t = "GUILD_MEMBER_UPDATE" -> handle_guild_member_update(f)
      [] f.t = "GUILD_CREATE"        -> handle_guild_create(f)
      [] f.t = "GUILD_DELETE"        -> handle_guild_delete(f)
      [] OTHER                       -> Raise(Cache, "AttributeError")

\* (a variant for comparison: every event name goes to socket_update)
HandledAny(t) == TRUE

\* received_message: the events that are dispatched as 'socket_update'
Handled(t) ==
    t \in {"READY", "MESSAGE_CREATE", "MESSAGE_DELETE", "MESSAGE_UPDATE",
           "PRESENCE_UPDATE", "USER_UPDATE", "CHANNEL_DELETE", "CHANNEL_UPDATE",
           "CHANNEL_CREATE", "GUILD_MEMBER_ADD", "GUILD_MEMBER_REMOVE",
           "GUILD_MEMBER_UPDATE", "GUILD_CREATE", "GUILD_DELETE"}

\* WebSocket.received_message after dispatch('socket_raw_receive'): a frame
\* whose op is not 0 is logged and dropped; an event that is not handled is
\* logged after dispatch('socket_response')
received_message(f) ==
    IF f.op # 0 THEN Done(Cache)
    ELSE IF Handled(f.t) THEN handle_socket_update(f)
    ELSE Done(Cache)

\* the socket-level events received_message dispatches for frame f, in order
SocketEvents(f) ==
    <<"socket_raw_receive">>
      \o (IF f.op # 0 THEN <<>>
          ELSE <<"socket_response">>
                 \o (IF Handled(f.t) THEN <<"socket_update">> ELSE <<>>))

\* the gateway's acknowledgement of a heartbeat
AckFrame == [NoFrame EXCEPT !.op = 11]

\* ------------------------------------------------------------ the frames

MessageIds == 1..(MaxLength + 1)

\* the dispatch frames the gateway sends, as far as the handlers tell them
\* apart; the gateway numbers the messages it creates 1, 2, ...
Frames ==
    {Frame("READY", 0, 0, ""),
     [Frame("READY", 1, PrivateId, "") EXCEPT !.channels = <<10>>, !.members = <<100>>],
     Frame("USER_UPDATE", 0, 0, "me2")}
    \cup {[Frame("MESSAGE_CREATE", 0, nmsg + 1, "x") EXCEPT !.channel = c] :
            c \in {0, 10}}
    \cup {Frame("MESSAGE_DELETE", 0, m, "") : m \in MessageIds}
    \cup {Frame("MESSAGE_UPDATE", 0, m, "y") : m \in MessageIds}
    \cup {Frame("PRESENCE_UPDATE", gd, m, "online") : gd \in GuildIds, m \in MemberIds}
    \cup {Frame(t, gd, c, "b") : t \in {"CHANNEL_DELETE", "CHANNEL_UPDATE"},
                                 gd \in GuildIds, c \in ChannelIds}
    \cup {Frame("CHANNEL_CREATE", gd, c, "") : gd \in GuildIds, c \in ChannelIds}
    \cup {Frame("CHANNEL_CREATE", 0, PrivateId, "")}
    \cup {Frame(t, gd, m, "b") : t \in {"GUILD_MEMBER_ADD", "GUILD_MEMBER_REMOVE"},
                                 gd \in GuildIds, m \in MemberIds}
    \cup {[Frame("GUILD_MEMBER_UPDATE", gd, m, "b") EXCEPT !.roles = rs] :
            gd \in GuildIds, m \in MemberIds, rs \in {<<>>, <<7, 6>>}}
    \cup {[Frame("GUILD_CREATE", gd, gd, "") EXCEPT !.channels = cs, !.members = ms] :
            gd \in GuildIds, cs \in {<<>>, <<10>>}, ms \in {<<>>, <<100>>, <<101>>}}
    \cup {Frame("GUILD_DELETE", 0, gd, "") : gd \in GuildIds}
    \cup {Frame("TYPING_START", 0, 0, "")}

\* the scenario: guild_create for guild 1 with channel 10 and member 100 into a
\* cache that knows none of them, then channel_delete for channel 10, then
\* guild_delete for guild 1, one right after the other
ScenarioCreate ==
    [Frame("GUILD_CREATE", 1, 1, "") EXCEPT !.channels = <<10>>, !.members = <<100>>]

HasMember(id) == \E k \in 1..Len(servers) : Find(servers[k].members, id) # 0

ScenNext(f) ==
    IF /\ f = ScenarioCreate
       /\ Find(servers, 1) = 0 /\ get_channel(10) = 0 /\ ~HasMember(100)
    THEN 1
    ELSE IF scen = 1 /\ f = Frame("CHANNEL_DELETE", 1, 10, "b") THEN 2
    ELSE IF scen = 2 /\ f = Frame("GUILD_DELETE", 0, 1, "") THEN 3
    ELSE 0

\* ------------------------------------------------------------ the threads

voicevars == <<state, connectedEvt, expecting, runner, cfields, sockvars, wsvars,
               taskvars, out, g, nevents, nfaults, ncalls, mode>>

\* The receive thread goes on with outcome r of a handler: it enters the user
\* callback of the event dispatched (dispatch_lock stays held), or the handler
\* has returned (dispatch returns and releases the lock), or the exception
\* leaves dispatch and received_message: the receive loop ends and the socket
\* is terminated (WebSocket.closed stops the keep_alive thread).
\* cs, es: the calls and on_error calls so far; ka: the heartbeat threads.
Continue(r, cs, es, ka) ==
    /\ servers' = r.c.s
    /\ private_channels' = r.c.p
    /\ messages' = r.c.m
    /\ user' = r.c.u
    /\ errors' = es
    /\ CASE r.k = "dispatch" ->
              /\ rx' = [pc |-> "callback", ev |-> r.ev, arg |-> r.arg, post |-> r.post]
              /\ dispatch_lock' = "rx"
              /\ calls' = Append(cs, [ev |-> r.ev, arg |-> r.arg])
              /\ keep_alive' = ka
         [] r.k = "done" ->
              /\ rx' = RxIdle
              /\ dispatch_lock' = "none"
              /\ calls' = cs
              /\ keep_alive' = ka
         [] r.k = "raise" ->
              /\ rx' = [RxIdle EXCEPT !.pc = "raised", !.ev = r.ev]
              /\ dispatch_lock' = "none"
              /\ calls' = cs
              /\ keep_alive' = IF ka > 0 THEN ka - 1 ELSE 0

\* WebSocket.received_message for a frame with op 0, up to the first user
\* callback: READY starts a KeepAliveHandler; dispatch('socket_update') takes
\* dispatch_lock and runs the handler of the event
RxFrame(f) ==
    /\ rx.pc = "idle"
    /\ dispatch_lock = "none"
    /\ nframes < (IF mode = "threads" THEN ThreadFrames ELSE MaxFrames)
    /\ nframes' = nframes + 1
    /\ last' = f
    /\ rep' = (f = last)
    /\ scen' = ScenNext(f)
    /\ nmsg' = IF f.t = "MESSAGE_CREATE" THEN nmsg + 1 ELSE nmsg
    /\ sockev' = SocketEvents(f)
    /\ Continue(received_message(f), <<>>, <<>>,
                IF f.t = "READY" THEN keep_alive + 1 ELSE keep_alive)
    /\ session' = (session \/ f.t = "READY")
    /\ UNCHANGED <<sent, waiter, acked, greet, nconn, ucalls, close_flag, rostervars,
                   treevars, voicevars>>

\* what a handler does after its dispatch call has returned
After(post, arg) ==
    CASE post = "append" ->
           Done([Cache EXCEPT !.m = DequeAppend(messages, arg, MaxLength)])
      [] post = "remove" ->
           IF Find(messages, arg.id) = 0 THEN Raise(Cache, "ValueError")
           ELSE Done([Cache EXCEPT !.m = RemoveAt(messages, Find(messages, arg.id))])
      [] post = "member_update" -> Dispatch(Cache, "member_update", arg, "none")
      [] post = "none" -> Done(Cache)

\* (a variant for comparison: dispatch without the try/except)
CallbackUncaught(raises) ==
    /\ rx.pc = "callback"
    /\ Continue(IF raises THEN Raise(Cache, "Exception") ELSE After(rx.post, rx.arg),
                calls, errors, keep_alive)
    /\ UNCHANGED <<sent, waiter, nmsg, last, rep, scen, nframes, sockev, gwvars, rostervars, treevars,
                   voicevars>>

\* The user callback on_<event> ends, by returning or by raising an
\* Exception, which dispatch catches and hands to on_error; the handler then
\* goes on after its dispatch call.
Callback(raises) ==
    /\ rx.pc = "callback"
    /\ Continue(After(rx.post, rx.arg), calls,
                IF raises
                THEN Append(errors, [method |-> "on_" \o rx.ev, arg |-> rx.arg])
                ELSE errors,
                keep_alive)
    /\ UNCHANGED <<sent, waiter, nmsg, last, rep, scen, nframes, sockev, gwvars, rostervars, treevars,
                   voicevars>>

\* KeepAliveHandler.run: stop.wait(seconds) has timed out; socket.send
\* dispatches 'socket_raw_send' (under dispatch_lock) and writes the heartbeat
HeartbeatSend ==
    /\ keep_alive > 0
    /\ dispatch_lock = "none"
    /\ sent < MaxBeats
    /\ sent' = sent + 1
    /\ acked' = FALSE
    /\ UNCHANGED <<cache, dispatch_lock, rx, keep_alive, waiter, nmsg, last, rep,
                   calls, errors, scen, nframes, sockev, greet, session, nconn, ucalls,
                   close_flag,
                   rostervars, treevars, voicevars>>

\* user code calls client.wait_for(...): Client defines no such attribute, and
\* Client.__getattr__ raises AttributeError
WaitFor ==
    /\ waiter = "none"
    /\ waiter' = "AttributeError"
    /\ UNCHANGED <<cache, dispatch_lock, rx, keep_alive, sent, nmsg, last, rep,
                   calls, errors, scen, nframes, sockev, gwvars, rostervars, treevars, voicevars>>

\* WebSocket.received_message for a frame whose op is not 0, here the
\* gateway's acknowledgement of the heartbeat: it is logged and dropped
RxUnhandled ==
    /\ rx.pc = "idle"
    /\ dispatch_lock = "none"
    /\ ~acked
    /\ acked' = TRUE
    /\ sockev' = SocketEvents(AckFrame)
    /\ Continue(received_message(AckFrame), calls, errors, keep_alive)
    /\ UNCHANGED <<sent, waiter, nmsg, last,
                   rep, scen, nframes, greet, session, nconn, ucalls, close_flag,
                   rostervars, treevars, voicevars>>

\* The gateway socket closes while the receive thread waits for a frame:
\* ws.run() terminates the socket, WebSocket.closed stops self.keep_alive and
\* dispatches 'socket_closed'; Client.run goes on after ws.run().
\* (closed by the gateway, by the network, or by the ws.close() of logout)
SocketClosed ==
    /\ rx.pc = "idle"
    /\ dispatch_lock = "none"
    /\ nconn < MaxReconnects \/ close_flag
    /\ rx' = [RxIdle EXCEPT !.pc = "closed"]
    /\ keep_alive' = IF keep_alive > 0 THEN keep_alive - 1 ELSE 0
    /\ UNCHANGED <<cache, dispatch_lock, sent, waiter, nmsg, last, rep, calls,
                   errors, scen, nframes, sockev, gwvars, rostervars, treevars, voicevars>>

\* _create_websocket(url, reconnect=False): the payload sent on the new socket
\* is the op 2 identify, whatever the closed connection had received
Greeting(had_session) == "identify"

\* (variant) a reconnect that goes on with the ConnectionState it had
RunReconnectKeepsCache(ok) ==
    /\ rx.pc = "closed"
    /\ ~close_flag
    /\ dispatch_lock = "none"
    /\ nconn' = nconn + 1
    /\ IF ok
       THEN /\ rx' = RxIdle
            /\ greet' = Greeting(session)
            /\ session' = FALSE
            /\ acked' = TRUE
            /\ UNCHANGED cache
       ELSE /\ rx' = [RxIdle EXCEPT !.pc = "raised", !.ev = "GatewayNotFound"]
            /\ UNCHANGED <<cache, greet, session, acked>>
    /\ UNCHANGED <<dispatch_lock, keep_alive, sent, waiter, nmsg, last, rep, calls,
                   errors, scen, nframes, sockev, ucalls, close_flag, rostervars, treevars,
                   voicevars>>

\* Client.run, one turn of `while not self._close`: the gateway is asked for
\* again; a status other than 200 raises GatewayNotFound; else the client gets
\* a new ConnectionState and _create_websocket opens a socket and greets on it
RunReconnect(ok) ==
    /\ rx.pc = "closed"
    /\ ~close_flag
    /\ dispatch_lock = "none"
    /\ nconn' = nconn + 1
    /\ IF ok
       THEN /\ servers' = <<>> /\ private_channels' = <<>> /\ messages' = <<>>
            /\ user' = "none"
            /\ rx' = RxIdle
            /\ greet' = Greeting(session)
            /\ session' = FALSE
            /\ acked' = TRUE
       ELSE /\ rx' = [RxIdle EXCEPT !.pc = "raised", !.ev = "GatewayNotFound"]
            /\ UNCHANGED <<cache, greet, session, acked>>
    /\ UNCHANGED <<dispatch_lock, keep_alive, sent, waiter, nmsg, last, rep, calls,
                   errors, scen, nframes, sockev, ucalls, close_flag, rostervars, treevars,
                   voicevars>>

\* Client.run: `while not self._close` finds the flag set, and run() returns
RunReturn ==
    /\ rx.pc = "closed"
    /\ close_flag
    /\ rx' = [RxIdle EXCEPT !.pc = "returned"]
    /\ UNCHANGED <<cache, dispatch_lock, keep_alive, sent, waiter, nmsg, last, rep,
                   calls, errors, scen, nframes, sockev, gwvars, rostervars, treevars,
                   voicevars>>

\* user code calls client.logout(): the flag is set and ws.close() asks for
\* the closure of the socket, which the receive thread then sees
Logout ==
    /\ ~close_flag
    /\ rx.pc # "returned"
    /\ close_flag' = TRUE
    /\ UNCHANGED <<cache, dispatch_lock, rx, keep_alive, sent, waiter, nmsg, last,
                   rep, calls, errors, scen, nframes, sockev, acked, greet, session,
                   nconn, ucalls, rostervars, treevars, voicevars>>

\* the id of the private channel that start_private_message gets
UserPrivateId == 21

\* user code calls client.start_private_message(user): self.user.id raises
\* AttributeError while no READY has set the user; when the request succeeds
\* the new PrivateChannel is appended to private_channels, in the calling
\* thread and without dispatch_lock
StartPrivateMessage(ok) ==
    /\ ucalls < MaxUserCalls
    /\ ucalls' = ucalls + 1
    /\ private_channels' = IF ok /\ user # "none"
                           THEN Append(private_channels, UserPrivateId)
                           ELSE private_channels
    /\ UNCHANGED <<servers, messages, user, dispatch_lock, rx, keep_alive, sent,
                   waiter, nmsg, last, rep, calls, errors, scen, nframes, sockev, acked,
                   greet, session, nconn, close_flag, rostervars, treevars, voicevars>>

\* user code calls client.edit_channel(channel, name=...) with a channel of the
\* cache: when the request succeeds, channel.update(...) writes the new fields
\* into the cached object, in the calling thread and without dispatch_lock
EditChannel(g1, c1, ok) ==
    /\ ucalls < MaxUserCalls
    /\ g1 \in 1..Len(servers)
    /\ c1 \in 1..Len(servers[g1].channels)
    /\ ucalls' = ucalls + 1
    /\ servers' = IF ok THEN [servers EXCEPT ![g1].channels[c1].name = "b"]
                  ELSE servers
    /\ UNCHANGED <<private_channels, messages, user, dispatch_lock, rx, keep_alive,
                   sent, waiter, nmsg, last, rep, calls, errors, scen, nframes, sockev,
                   acked, greet, session, nconn, close_flag, rostervars, treevars, voicevars>>

\* list.remove(x): seq without its first x; ValueError (here passed) when x is
\* not in it
RemoveFirst(seq, x) ==
    IF \E k \in 1..Len(seq) : seq[k] = x
    THEN RemoveAt(seq, CHOOSE k \in 1..Len(seq) :
                         seq[k] = x /\ \A j \in 1..(k - 1) : seq[j] # x)
    ELSE seq

\* (a variant for comparison: a move that leaves the member in the old roster)
RosterAfterKeepsOld(vm, m, old, new) ==
    IF new # NoChannel THEN [vm EXCEPT ![new] = Append(@, m)] ELSE vm

\* Member.update_voice_state: the rosters after member m, whose voice_channel
\* was old, gets voice_channel new
RosterAfter(vm, m, old, new) ==
    IF old = NoChannel /\ new # NoChannel
    THEN [vm EXCEPT ![new] = Append(@, m)]
    ELSE IF old # NoChannel
    THEN LET left == [vm EXCEPT ![old] = RemoveFirst(@, m)] IN
         IF new # NoChannel THEN [left EXCEPT ![new] = Append(@, m)] ELSE left
    ELSE vm

\* member.update_voice_state(voice_channel=ch)
update_voice_state(m, ch) ==
    /\ voice_channel' = [voice_channel EXCEPT ![m] = ch]
    /\ voice_members' = RosterAfter(voice_members, m, voice_channel[m], ch)
    /\ vlast' = [m |-> m, old |-> voice_channel[m], new |-> ch]
    /\ UNCHANGED <<cache, dispatch_lock, rx, keep_alive, sent, waiter, nmsg, last,
                   rep, calls, errors, scen, nframes, sockev, gwvars, treevars,
                   voicevars>>

\* the receive thread alone: the cache and the callbacks
ClientNext ==
    \/ \E f \in Frames : RxFrame(f)
    \/ \E raises \in BOOLEAN : Callback(raises)

\* the receive thread, the heartbeat threads and a thread of user code
ThreadsNext ==
    \/ \E f \in Frames : RxFrame(f)
    \/ \E raises \in BOOLEAN : Callback(raises)
    \/ HeartbeatSend
    \/ WaitFor
    \/ RxUnhandled
    \/ SocketClosed
    \/ \E ok \in BOOLEAN : RunReconnect(ok)
    \/ RunReturn
    \/ Logout
    \/ \E ok \in BOOLEAN : StartPrivateMessage(ok)
    \/ \E g1 \in 1..Len(servers) : \E c1 \in 1..Len(servers[g1].channels) :
          \E ok \in BOOLEAN : EditChannel(g1, c1, ok)

\* ------------------------------------------------------ the command tree

\* guild=None, and the guild of the guild commands
NoGuild == 0
TreeGuild == 1

\* the names a command can be given for a collection: one more than the limit
\* for the global slash commands and for the user context menus without guild
NamesFor(kind, guild, type) ==
    IF kind = "slash"
    THEN IF guild = NoGuild THEN 1..(MaxSlash + 1) ELSE 1..GuildSlashNames
    ELSE IF guild = NoGuild /\ type = "user" THEN 1..(MaxMenus + 1)
    ELSE 1..OtherMenuNames

\* the names in a collection of the tree
NamesIn(kind, guild, type) ==
    IF kind = "slash"
    THEN IF guild = NoGuild THEN global_commands
         ELSE IF guild \in DOMAIN guild_commands THEN guild_commands[guild] ELSE {}
    ELSE {k[1] : k \in {x \in context_menus : x[2] = guild /\ x[3] = type}}

\* the names the calls are made with: names are told apart only by being in
\* the collection or not, so the first name that is free and the last that is
\* taken stand for the others
Lowest(S) == CHOOSE n \in S : \A k \in S : n <= k
Highest(S) == CHOOSE n \in S : \A k \in S : n >= k
CallNames(kind, guild, type) ==
    LET free == NamesFor(kind, guild, type) \ NamesIn(kind, guild, type)
        taken == NamesIn(kind, guild, type) IN
    (IF free = {} THEN {} ELSE {Lowest(free)})
      \cup (IF taken = {} THEN {} ELSE {Highest(taken)})

Tree == [gl |-> global_commands, gd |-> guild_commands, cm |-> context_menus]

\* dict.setdefault(guild.id, {})
SetDefault(gd, guild) ==
    [x \in DOMAIN gd \cup {guild} |-> IF x \in DOMAIN gd THEN gd[x] ELSE {}]

BoolInt(b) == IF b THEN 1 ELSE 0

\* add_command: `total + found > 5`, `len(commands) + found > 100`
OverLimit(size, found, limit) == size + BoolInt(found) > limit

\* CommandTree.add_command for a ContextMenu (kind "menu") or a Command or
\* Group (kind "slash"): the tree after the call and how the call ends
add_command(kind, name, guild, type, override) ==
    IF kind = "menu"
    THEN LET key == <<name, guild, type>>
             found == key \in context_menus
             total == Cardinality({k \in context_menus : k[2] = guild /\ k[3] = type}) IN
         IF found /\ ~override THEN [t |-> Tree, r |-> "CommandAlreadyRegistered"]
         ELSE IF OverLimit(total, found, MaxMenus) THEN [t |-> Tree, r |-> "ValueError"]
         ELSE [t |-> [Tree EXCEPT !.cm = @ \cup {key}], r |-> "ok"]
    ELSE IF guild # NoGuild
    THEN LET gd == SetDefault(guild_commands, guild)
             found == name \in gd[guild] IN
         IF found /\ ~override
         THEN [t |-> [Tree EXCEPT !.gd = gd], r |-> "CommandAlreadyRegistered"]
         ELSE IF OverLimit(Cardinality(gd[guild]), found, MaxSlash)
         THEN [t |-> [Tree EXCEPT !.gd = gd], r |-> "ValueError"]
         ELSE [t |-> [Tree EXCEPT !.gd = [gd EXCEPT ![guild] = @ \cup {name}]],
               r |-> "ok"]
    ELSE LET found == name \in global_commands IN
         IF found /\ ~override THEN [t |-> Tree, r |-> "CommandAlreadyRegistered"]
         ELSE IF OverLimit(Cardinality(global_commands), found, MaxSlash)
         THEN [t |-> Tree, r |-> "ValueError"]
         ELSE [t |-> [Tree EXCEPT !.gl = @ \cup {name}], r |-> "ok"]

\* CommandTree.remove_command: dict.pop(name, None) on the collection
remove_command(kind, name, guild, type) ==
    IF kind = "slash"
    THEN IF guild = NoGuild
         THEN [t |-> [Tree EXCEPT !.gl = @ \ {name}],
               r |-> IF name \in global_commands THEN "removed" ELSE "None"]
         ELSE IF guild \notin DOMAIN guild_commands THEN [t |-> Tree, r |-> "None"]
         ELSE [t |-> [Tree EXCEPT !.gd[guild] = @ \ {name}],
               r |-> IF name \in guild_commands[guild] THEN "removed" ELSE "None"]
    ELSE [t |-> [Tree EXCEPT !.cm = @ \ {<<name, guild, type>>}],
          r |-> IF <<name, guild, type>> \in context_menus THEN "removed" ELSE "None"]

\* the collections the calls are made for: kind, guild, type
Collections ==
    {<<"slash", NoGuild, "chat_input">>, <<"slash", TreeGuild, "chat_input">>,
     <<"menu", NoGuild, "user">>, <<"menu", NoGuild, "message">>,
     <<"menu", TreeGuild, "user">>}

treeothers == <<cache, dispatch_lock, rx, keep_alive, sent, waiter, nmsg, last, rep,
                calls, errors, scen, nframes, sockev, gwvars, rostervars, voicevars>>

\* what a call with outcome o leaves behind
TreeBecomes(o) ==
    /\ global_commands' = o.t.gl
    /\ guild_commands' = o.t.gd
    /\ context_menus' = o.t.cm
    /\ tres' = o.r

\* user code calls tree.add_command(command, guild=..., override=...)
AddCommand(c, name, override) ==
    /\ TreeBecomes(add_command(c[1], name, c[2], c[3], override))
    /\ UNCHANGED treeothers

\* user code calls tree.remove_command(name, guild=..., type=...)
RemoveCommand(c, name) ==
    /\ TreeBecomes(remove_command(c[1], name, c[2], c[3]))
    /\ UNCHANGED treeothers

TreeNext ==
    \/ \E c \in Collections : \E name \in CallNames(c[1], c[2], c[3]) :
          \E override \in BOOLEAN : AddCommand(c, name, override)
    \/ \E c \in Collections : \E name \in CallNames(c[1], c[2], c[3]) :
          RemoveCommand(c, name)

\* the voice states of the members, changed by update_voice_state calls
RosterNext ==
    \E m \in VoiceMemberIds : \E ch \in ChannelIds \cup {NoChannel} :
       update_voice_state(m, ch)

\* the gateway client alone; the voice connection stays as constructed
InitClient == InitFields /\ mode = "client"

InitThreads == InitFields /\ mode = "threads"

ClientSpec == InitClient /\ [][ClientNext]_vvars

ThreadsSpec == InitThreads /\ [][ThreadsNext]_vvars

InitRoster == InitFields /\ mode = "roster"

RosterSpec == InitRoster /\ [][RosterNext]_vvars

InitTree == InitFields /\ mode = "tree"

TreeSpec == InitTree /\ [][TreeNext]_vvars

\* ------------------------------------------------ properties of the client

RECURSIVE NumMembers(_)
NumMembers(srvs) ==
    IF srvs = <<>> THEN 0 ELSE Len(Head(srvs).members) + NumMembers(Tail(srvs))

NumChannels(srvs) == Len(AllChannels(srvs))

InSeq(x, seq) == \E k \in 1..Len(seq) : seq[k] = x

\* C12: when the user callback of an event starts, the cache change of that
\* event is done: for on_message the message is in the buffer, for
\* on_message_delete the message is out of it, for on_channel_delete,
\* on_member_remove and on_server_delete the entity is out of its list, and
\* for on_member_join the member is in the server's list.
C12_CacheBeforeCallback ==
    [][(rx.pc = "idle" /\ rx'.pc = "callback") =>
         /\ rx'.ev = "message" => InSeq(rx'.arg, messages')
         /\ rx'.ev = "message_delete" =>
              (~InSeq(rx'.arg, messages') /\ Len(messages') = Len(messages) - 1)
         /\ rx'.ev = "channel_delete" => NumChannels(servers') = NumChannels(servers) - 1
         /\ rx'.ev = "member_join" => NumMembers(servers') = NumMembers(servers) + 1
         /\ rx'.ev = "member_remove" => NumMembers(servers') = NumMembers(servers) - 1
         /\ rx'.ev = "server_delete" =>
              (~InSeq(rx'.arg, servers') /\ Len(servers') = Len(servers) - 1)]_vvars

\* C13: a user callback that raises does not end the receive loop: the step
\* that ends a callback never leaves dispatch with an exception; when the
\* callback raised, on_error is called once, with 'on_' + event and the event's
\* argument; servers, private channels and user stay as the handler left them
\* and the handler still does to the message buffer what remained to do; once
\* the handler has returned, dispatch_lock is free for the next frame.
C13_CallbackErrorIsCaught ==
    /\ [](rx.pc = "idle" => dispatch_lock = "none")
    /\ [][rx.pc = "callback" =>
            /\ rx'.pc \in {"idle", "callback"}
            /\ \/ errors' = errors
               \/ errors' = Append(errors, [method |-> "on_" \o rx.ev, arg |-> rx.arg])
            /\ servers' = servers /\ private_channels' = private_channels
            /\ user' = user
            /\ IF rx.post = "append" THEN InSeq(rx.arg, messages')
               ELSE IF rx.post = "remove"
               THEN ~InSeq(rx.arg, messages') /\ Len(messages') = Len(messages) - 1
               ELSE messages' = messages
            /\ (rx.post = "member_update") =>
                 (rx'.pc = "callback" /\ rx'.ev = "member_update")]_vvars

\* C13 witness: on_channel_delete raised and on_error was called with it; the
\* channel is gone from its server, the receive thread is ready for the next
\* frame; or on_status raised and on_member_update is running all the same
C13_Witness ==
    \/ /\ rx.pc = "idle" /\ last = Frame("CHANNEL_DELETE", 1, 10, "b")
       /\ errors = <<[method |-> "on_channel_delete", arg |-> NewChannel(10)]>>
       /\ Find(servers, 1) # 0 /\ get_channel(10) = 0
    \/ /\ rx.pc = "callback" /\ rx.ev = "member_update"
       /\ Len(errors) = 1 /\ errors[1].method = "on_status"

\* C14: while a user callback has not returned, the receive loop can take the
\* next frame, and a running heartbeat thread whose wait is over can send.
C14_CallbackDoesNotBlock ==
    (rx.pc = "callback" /\ nframes < ThreadFrames)
      => /\ ENABLED (\E f \in Frames : RxFrame(f))
         /\ (keep_alive > 0 /\ sent < MaxBeats) => ENABLED HeartbeatSend

\* C15: a wait_for call registers a waiter, which is pending until a dispatch
\* whose arguments satisfy its predicate resolves it or until it times out:
\* the call ends in no other way
C15_WaitForResolves == waiter \in {"none", "pending", "resolved", "timeout"}

\* C16: the message buffer never holds more than max_length messages; and
\* when all frames so far were message creates, it holds the newest
\* min(n, max_length) of the n messages created, in the order of creation (so
\* after max_length + 1 creates message 1 is gone and the others are there).
C16_BufferBounded ==
    /\ Len(messages) <= MaxLength
    /\ (rx.pc = "idle" /\ nframes = nmsg) =>
         /\ Len(messages) = IF nmsg < MaxLength THEN nmsg ELSE MaxLength
         /\ \A k \in 1..Len(messages) : messages[k].id = nmsg - Len(messages) + k

\* C16 witness: max_length + 1 messages were created and nothing else
\* happened; the first is not in the buffer
C16_Witness ==
    /\ rx.pc = "idle" /\ nframes = nmsg /\ nmsg = MaxLength + 1
    /\ Find(messages, 1) = 0 /\ Find(messages, nmsg) = MaxLength

\* C17: in the scenario, after channel_delete for channel 10 guild 1 is
\* cached with no channel and with member 100; after guild_delete for guild 1
\* no lookup finds guild 1, channel 10 or member 100.
C17_ScenarioCache ==
    /\ scen = 2 =>
         /\ Find(servers, 1) # 0
         /\ servers[Find(servers, 1)].channels = <<>>
         /\ servers[Find(servers, 1)].members = <<ServerMember(100)>>
    /\ scen = 3 =>
         /\ Find(servers, 1) = 0
         /\ get_channel(10) = 0
         /\ ~HasMember(100)

\* C17 witness: the three events of the scenario have been handled
C17_Witness == scen = 3 /\ rx.pc = "idle" /\ nframes = 3

DeleteEvents == {"GUILD_DELETE", "CHANNEL_DELETE", "GUILD_MEMBER_REMOVE"}

\* C18: a delete event that repeats the frame right before it changes nothing
\* in the cache, raises nothing and dispatches no user-level event.
C18_DeleteTwice ==
    [][(nframes' = nframes + 1 /\ rep' /\ last'.t \in DeleteEvents) =>
         /\ servers' = servers /\ private_channels' = private_channels
         /\ messages' = messages /\ user' = user
         /\ rx'.pc = "idle"
         /\ calls' = <<>>]_vvars

\* C19: a message_update or message_delete for an id that is not in the
\* buffer leaves the cache as it is, raises nothing and dispatches nothing.
C19_UnknownMessage ==
    [][(nframes' = nframes + 1 /\ last'.t \in {"MESSAGE_UPDATE", "MESSAGE_DELETE"}
          /\ Find(messages, last'.id) = 0) =>
         /\ messages' = messages
         /\ servers' = servers /\ private_channels' = private_channels
         /\ user' = user
         /\ rx'.pc = "idle"
         /\ calls' = <<>>]_vvars

\* C19 witness: a message_delete was handled with nothing dispatched (its id
\* was not in the buffer) while the buffer holds a message
C19_Witness ==
    /\ rx.pc = "idle" /\ last.t = "MESSAGE_DELETE" /\ calls = <<>>
    /\ messages # <<>> /\ Find(messages, last.id) = 0

\* the frame refers to a guild, channel or member that is not in the cache
UnknownRef(f) ==
    LET g1 == Find(servers, f.guild) IN
    CASE f.t = "CHANNEL_CREATE" -> f.guild # 0 /\ g1 = 0
      [] f.t = "GUILD_MEMBER_ADD" -> g1 = 0
      [] f.t = "CHANNEL_UPDATE" -> g1 = 0 \/ Find(servers[g1].channels, f.id) = 0
      [] f.t \in {"GUILD_MEMBER_UPDATE", "GUILD_MEMBER_REMOVE", "PRESENCE_UPDATE"} ->
           g1 = 0 \/ Find(servers[g1].members, f.id) = 0
      [] OTHER -> FALSE

\* C20: an event that refers to an unknown guild, channel or member leaves
\* the cache as it is, raises nothing and dispatches no event with None.
C20_UnknownRefIsNoOp ==
    [][(nframes' = nframes + 1 /\ UnknownRef(last')) =>
         /\ servers' = servers /\ private_channels' = private_channels
         /\ messages' = messages /\ user' = user
         /\ rx'.pc # "raised"
         /\ ~(rx'.pc = "callback" /\ rx'.arg = NoneObj)]_vvars

\* C25: when READY or guild_create has added a guild, every entry of the
\* roles list of each of its members is a Role object of that guild.
C25_MemberRolesResolved ==
    [][(nframes' = nframes + 1 /\ last'.t \in {"READY", "GUILD_CREATE"}
          /\ Len(servers') = Len(servers) + 1) =>
         LET srv == servers'[Len(servers')] IN
         \A k \in 1..Len(srv.members) :
            \A j \in 1..Len(srv.members[k].roles) :
               InSeq(srv.members[k].roles[j], srv.roles)]_vvars

UniqueIds(seq) == \A j, k \in 1..Len(seq) : seq[j].id = seq[k].id => j = k

CreateEvents == {"GUILD_CREATE", "CHANNEL_CREATE", "GUILD_MEMBER_ADD"}

\* C21: each id in the cache occurs once in its collection, and a create
\* event that repeats the frame right before it leaves the cache as it was.
C21_CreateTwiceIsOnce ==
    /\ [](/\ UniqueIds(servers)
          /\ \A k \in 1..Len(servers) :
               UniqueIds(servers[k].channels) /\ UniqueIds(servers[k].members)
          /\ \A j, k \in 1..Len(private_channels) :
               private_channels[j] = private_channels[k] => j = k)
    /\ [][(nframes' = nframes + 1 /\ rep' /\ last'.t \in CreateEvents) =>
            (servers' = servers /\ private_channels' = private_channels)]_vvars

\* C22: when READY has been handled the cache holds the guilds and the
\* private channels of that READY payload and no others.
C22_ReadyReplacesCache ==
    [][(nframes' = nframes + 1 /\ last'.t = "READY") =>
         /\ servers' = IF last'.guild = 0 THEN <<>>
                       ELSE <<NewServer(last'.guild, last'.channels, last'.members)>>
         /\ private_channels' = IF last'.id = 0 THEN <<>> ELSE <<last'.id>>]_vvars

\* C23: message_update for a cached message dispatches message_edit with the
\* message as it was and as it is with the payload's content; when the event
\* is handled, the message in the buffer has the payload's content.
C23_MessageUpdateStored ==
    /\ [][(nframes' = nframes + 1 /\ last'.t = "MESSAGE_UPDATE"
             /\ Find(messages, last'.id) # 0) =>
            /\ rx'.pc = "callback" /\ rx'.ev = "message_edit"
            /\ rx'.arg.before = messages[Find(messages, last'.id)]
            /\ rx'.arg.after = [messages[Find(messages, last'.id)] EXCEPT
                                  !.content = last'.name]]_vvars
    /\ []((rx.pc = "idle" /\ last.t = "MESSAGE_UPDATE"
             /\ Find(messages, last.id) # 0) =>
            messages[Find(messages, last.id)].content = last.name)

\* the channel ids of a server
ChannelIdsOf(srv) == {srv.channels[k].id : k \in 1..Len(srv.channels)}

\* C24: when channel_delete or guild_delete has removed a channel or a guild,
\* no message in the buffer has that channel, or a channel of that guild, as
\* its channel.
C24_NoDanglingChannel ==
    [][(nframes' = nframes + 1 /\ rx'.pc = "callback") =>
         /\ rx'.ev = "channel_delete" =>
              \A k \in 1..Len(messages') : messages'[k].channel # rx'.arg.id
         /\ rx'.ev = "server_delete" =>
              \A k \in 1..Len(messages') :
                 messages'[k].channel \notin ChannelIdsOf(rx'.arg)]_vvars

\* how often x occurs in seq
Occurrences(seq, x) == Cardinality({k \in 1..Len(seq) : seq[k] = x})

\* C27: whatever update_voice_state calls were made, each member is once in
\* the voice_members roster of its voice_channel and in no other roster, and
\* in none when its voice_channel is None.
C27_RosterMatchesChannel ==
    \A m \in VoiceMemberIds : \A c \in ChannelIds :
       Occurrences(voice_members[c], m) = IF voice_channel[m] = c THEN 1 ELSE 0

\* C27 witness: member 100 has moved from channel 10, where 101 stays, to
\* channel 11, where 102 was before
C27_Witness ==
    /\ vlast = [m |-> 100, old |-> 10, new |-> 11]
    /\ voice_members[10] = <<101>>
    /\ voice_members[11] = <<102, 100>>

\* C28: a heartbeat thread sends a heartbeat only when every heartbeat sent
\* before on the connection has been acknowledged; with one unacknowledged
\* the connection counts as dead and no further heartbeat goes out on it.
C28_NoBeatWithoutAck ==
    [][(sent' = sent + 1 /\ keep_alive = 1) => acked]_vvars

\* C29: when the socket has closed and Client.run connects again, the new
\* connection sends resume if READY had opened a session on the closed one,
\* and identify only if there was none.
C29_ResumeAfterClose ==
    [][(rx.pc = "closed" /\ rx'.pc = "idle") =>
         greet' = IF session THEN "resume" ELSE "identify"]_vvars

\* C30: servers (with their channels and members), private_channels and
\* messages change only in steps of the receive thread inside dispatch (a
\* handler run for a frame, or going on after its callback), or when Client.run
\* replaces the whole ConnectionState on reconnecting.
C30_OnlyDispatchWrites ==
    [][(servers' # servers \/ private_channels' # private_channels
          \/ messages' # messages) =>
         \/ nframes' = nframes + 1
         \/ rx.pc = "callback" /\ rx' # rx
         \/ rx.pc = "closed"]_vvars

\* C31: a frame whose op is not 0 changes neither the cache nor the heartbeat
\* threads nor the session, is dispatched as socket_raw_receive only, and
\* leaves the receive thread waiting for the next frame with no error raised;
\* a dispatch frame of an event that is not handled leaves the cache as it
\* was and is not dispatched as socket_update.
C31_UnhandledFrameIgnored ==
    [][/\ (~acked /\ acked' /\ rx.pc = "idle") =>
            /\ servers' = servers /\ private_channels' = private_channels
            /\ messages' = messages /\ user' = user
            /\ keep_alive' = keep_alive /\ sent' = sent
            /\ session' = session /\ greet' = greet
            /\ calls' = calls /\ errors' = errors
            /\ rx' = RxIdle /\ dispatch_lock' = "none"
            /\ sockev' = <<"socket_raw_receive">>
       /\ (nframes' = nframes + 1 /\ last'.t = "TYPING_START") =>
            /\ servers' = servers /\ private_channels' = private_channels
            /\ messages' = messages /\ user' = user
            /\ keep_alive' = keep_alive
            /\ rx' = RxIdle /\ dispatch_lock' = "none"
            /\ sockev' = <<"socket_raw_receive", "socket_response">>]_vvars

\* C31 witness: with a guild in the cache and a heartbeat thread running, the
\* acknowledgement of the heartbeat (op 11) has come, and then a frame of an
\* event that is not handled
C31_Witness ==
    /\ last.t = "TYPING_START" /\ rx.pc = "idle"
    /\ sockev = <<"socket_raw_receive", "socket_response">>
    /\ sent = 1 /\ acked /\ nconn = 0
    /\ keep_alive = 1 /\ Len(servers) = 1

\* the limit of a collection of the tree
LimitOf(kind) == IF kind = "slash" THEN MaxSlash ELSE MaxMenus

\* the tree without the empty dicts that setdefault leaves in _guild_commands
Commands(t) ==
    [t EXCEPT !.gd = [x \in {y \in DOMAIN t.gd : t.gd[y] # {}} |-> t.gd[x]]]

\* C32: the tree never holds more than 100 global slash commands, 100 slash
\* commands of a guild or 5 context menus of a (guild, type); in every tree
\* that add_command and remove_command calls lead to, an add_command raises
\* ValueError only if it would exceed the limit, and then leaves the commands
\* of the tree as they were; with override=True and a name that is in the
\* collection it does not raise ValueError when the collection is exactly at
\* the limit.
C32_TreeLimits ==
    /\ Cardinality(global_commands) <= MaxSlash
    /\ \A gid \in DOMAIN guild_commands :
         Cardinality(guild_commands[gid]) <= MaxSlash
    /\ \A c \in Collections :
         /\ c[1] = "menu" => Cardinality(NamesIn("menu", c[2], c[3])) <= MaxMenus
         /\ \A name \in CallNames(c[1], c[2], c[3]) : \A override \in BOOLEAN :
              LET o == add_command(c[1], name, c[2], c[3], override)
                  found == name \in NamesIn(c[1], c[2], c[3])
                  size == Cardinality(NamesIn(c[1], c[2], c[3])) IN
              /\ o.r = "ValueError" =>
                   (Commands(o.t) = Commands(Tree) /\ ~found /\ size >= LimitOf(c[1]))
              /\ (found /\ override /\ size = LimitOf(c[1])) => o.r = "ok"

\* connect() of task p returns without raising in this step: the handshake
\* is complete, or the loop is left after the last sleep
ConnectReturnsOk(p) ==
    /\ pc[p] \in {"c_hs_ip", "c_hs_key", "c_sleep"}
    /\ pc'[p] \in {"idle", "p_poll"}
    /\ result'[p] = "ok"

\* C33: whenever connect() returns without raising, the state is connected;
\* with reconnect enabled and all five attempts failed, connect() does not
\* return normally with the state disconnected.
C33_ReturnsConnected ==
    [][\A p \in ConnProcs : ConnectReturnsOk(p) => state' = "connected"]_vvars

\* C34: when connect() has returned without raising and the state is
\* connected, a poller task is running, also when an earlier poller of the
\* same VoiceConnectionState has ended.
C34_PollerRuns ==
    [][\A p \in ConnProcs :
         (ConnectReturnsOk(p) /\ state' = "connected") => ~PollerDead']_vvars

\* a gateway handler gets to `await self.ws.close(4014)` in this step:
\* voice_state_update for another channel in the middle of the connection
\* flow, or voice_server_update in state connected
ReachesClose ==
    /\ nevents' = nevents + 1
    /\ \/ /\ channel' # channel
          /\ state \notin {"set_guild_voice_state", "got_voice_server_update",
                           "connected", "disconnected"}
       \/ pc'["vsrv"] = "s_closing"

\* C35: whenever voice_state_update or voice_server_update gets to
\* ws.close(4014), ws is a signalling socket that has been opened, and the
\* close is carried out; so also for a voice_state_update for another channel
\* in state got_both_voice_updates while connect() is still opening the first
\* socket.
C35_CloseOpenedSocket ==
    [][ReachesClose => (ws # NoWs /\ "ws_close" \in out' /\ wsCode' = 4014)]_vvars

\* the voice_state_update payloads with a null channel id
NullPayloads == {d \in VoiceStatePayloads : d.channel_id = None}

\* a leave request of disconnect() is sent and its _voice_disconnect has
\* not gone on yet
LeaveInFlight == \E p \in Procs : pc[p] = "d_leaving"

\* C36: a voice_state_update with a null channel id calls disconnect()
\* exactly when _expecting_disconnect is clear, and with the flag set it only
\* clears the flag; the null update that answers a leave request of
\* disconnect() starts no second disconnect; session_id is left as it was;
\* and the disconnect() of the handler ends in state disconnected.
C36_LeaveIsExpected ==
    [][/\ \A d \in NullPayloads : VoiceStateUpdate(d) =>
            /\ session_id' = session_id
            /\ (pc'["vsu"] \in InDisconnect) <=> ~expecting
            /\ expecting =>
                 /\ ~expecting'
                 /\ state' = state /\ pc' = pc /\ out' = {}
                 /\ UNCHANGED <<wsvars, sockvars, cfields>>
            /\ LeaveInFlight => pc'["vsu"] \notin InDisconnect
       /\ (pc["vsu"] \in InDisconnect /\ pc'["vsu"] = "idle") =>
            (state' = "disconnected" /\ session_id' = session_id)]_vvars

\* C37: a thread blocked in wait(timeout) is released with the result True
\* only by the state becoming connected, never by a disconnect(); and the
\* connected event is set exactly while the state is connected.
C37_WaitTrueOnlyConnected ==
    /\ [](connectedEvt <=> state = "connected")
    /\ [][(pc["waiter"] = "w_wait" /\ ~woken["waiter"] /\ woken'["waiter"])
             => state' = "connected"]_vvars

\* the awaits of connect() inside its try block: opening the signalling
\* socket and the handshake
TryLabels == {Lbl["c"].opening, Lbl["c"].ip, Lbl["c"].key}

\* C40: one call of connect() sends at most five join requests (i counts
\* them from 0 to 4); with reconnect enabled, after the failed handshake of
\* attempt i connect() runs disconnect(cleanup=False) and then sleeps
\* 1 + 2*i before it sends the next join request, and that disconnect() does
\* not call voice_client.cleanup().
C40_AttemptLoop ==
    /\ [](i < Attempts)
    /\ [](\A p \in ConnProcs : pc[p] = "c_sleep" => (reconnect /\ wait = 1 + 2 * i))
    /\ [][\A p \in ConnProcs :
            /\ (pc[p] # "c_joining" /\ pc'[p] = "c_joining") =>
                 /\ "join" \in out'
                 /\ IF pc[p] = "c_sleep" THEN i' = i + 1 /\ i' < Attempts ELSE i' = 0
            /\ (pc[p] \in TryLabels /\ pc'[p] \in InDisconnect /\ reconnect) =>
                 /\ dret'[p] = "c_sleep" /\ ~dcleanup'[p]
                 /\ wait' = 1 + 2 * i /\ i' = i
            /\ (pc[p] \in InDisconnect /\ dret[p] = "c_sleep") =>
                 /\ pc'[p] \in InDisconnect \cup {"c_sleep"}
                 /\ pc'[p] = "c_sleep" => "cleanup" \notin out'
                 /\ wait' = wait /\ i' = i]_vvars

\* C40 witness: the fifth attempt of the user's connect(reconnect=True) has
\* failed, disconnect(cleanup=False) is done and connect() sleeps 9 seconds
C40_Witness ==
    /\ pc["user"] = "c_sleep" /\ reconnect /\ i = 4 /\ wait = 9
    /\ state = "disconnected" /\ "cleanup" \notin out

\* WebSocket.closed() has run for the socket of the receive thread, and
\* Client.run has not opened the next one
SocketIsClosed == rx.pc \in {"closed", "raised"}

\* C39: at most one heartbeat thread is active for a socket, also when READY
\* comes more than once on it; and once WebSocket.closed() has run for the
\* socket, no heartbeat thread sends on it.
C39_OneBeatThread ==
    /\ [](keep_alive <= 1)
    /\ [][SocketIsClosed => sent' = sent]_vvars

\* the cache of a new ConnectionState
EmptyCache ==
    /\ servers = <<>> /\ private_channels = <<>> /\ messages = <<>>
    /\ user = "none"

\* C38: Client.run() returns only when logout() has set the close flag; when
\* ws.run() has ended with the flag clear, run() either raises
\* GatewayNotFound or replaces the ConnectionState by an empty one, opens a new
\* socket and sends identify on it, so that nothing of the cache of the
\* session before is left after the reconnect.
C38_RunUntilLogout ==
    /\ [](rx.pc = "returned" => close_flag)
    /\ [][/\ close_flag => close_flag'
          /\ (rx.pc = "closed" /\ rx' # rx) =>
               IF close_flag
               THEN rx'.pc = "returned" /\ nconn' = nconn /\ UNCHANGED cache
               ELSE \/ rx'.pc = "raised" /\ rx'.ev = "GatewayNotFound"
                    \/ /\ rx' = RxIdle /\ nconn' = nconn + 1
                       /\ EmptyCache' /\ greet' = "identify" /\ ~session'
          /\ rx.pc = "returned" => rx' = rx
          /\ (rx.pc = "raised" /\ rx.ev = "GatewayNotFound") => rx' = rx]_vvars

\* C38 witness: a guild was cached, the socket closed with no logout, and
\* Client.run has reconnected: the cache is empty and identify was sent
C38_Witness ==
    /\ nconn = 1 /\ rx = RxIdle /\ ~close_flag
    /\ nframes = 1 /\ last.t = "GUILD_CREATE"
    /\ EmptyCache /\ greet = "identify" /\ ~session

====
